---- MODULE Spec2Model ----
(***************************************************************************)
(* Conflict-Based Search for multi-agent path finding on a 4-connected     *)
(* grid: the low-level time-expanded A* / focal searches                   *)
(* (src/algorithm/astar.rs, src/algorithm/astarfocal.rs) and the           *)
(* high-level constraint-tree drivers (src/solver/*.rs) over the CT node   *)
(* of src/common/highlevel.rs.                                             *)
(*                                                                         *)
(* Cells are pairs <<row, col>>.  A path is a sequence of cells; the cell  *)
(* at time t is path[t + 1].  Suboptimality factors are rationals          *)
(* <<num, den>>; the f64 comparison  a <= b * w  is  a * den <= b * num,   *)
(* which is exact for the factors used (1, 3/2, 2).                        *)
(***************************************************************************)
EXTENDS Integers, Sequences, FiniteSets, TLC

VARIABLES
    grid,        \* Map.grid: the set of passable cells
    agents,      \* sequence of [start, goal]; agent ids are 0-based, agents[id + 1]
    heuristic,   \* Map.heuristic: per agent, cell -> distance to the agent's goal
    config,      \* Config: solver, op_* flags, sub_optimal factors
    ll,          \* one low-level search call: its arguments and its loop state
    open,        \* high-level open list (BTreeSet<HighLevelOpenNode>)
    focal,       \* high-level focal list (BTreeSet<HighLevelFocalNode>)
    closed,      \* BCBS closed set
    pc,          \* position of the driver: "root", "loop", "solved", "nosolution", ...
    solution,    \* the node whose paths solve returns
    iterations   \* number of driver steps taken so far

vars == <<grid, agents, heuristic, config, ll, open, focal, closed, pc, solution, iterations>>

----------------------------------------------------------------------------
(* Bounds of the model *)

\* largest number of pops one low-level search call may take before the
\* model stops following it
MaxExpansions == 60

----------------------------------------------------------------------------
(* Map oracle: src/map.rs *)

Directions == << <<-1, 0>>, <<1, 0>>, <<0, -1>>, <<0, 1>>, <<0, 0>> >>

\* Map::get_neighbors; the searches call it with a third argument that drops
\* the stay-in-place direction.
get_neighbors(pos, include_wait) ==
    SelectSeq([i \in 1..5 |-> <<pos[1] + Directions[i][1], pos[2] + Directions[i][2]>>],
              LAMBDA n : n \in grid /\ (include_wait \/ n # pos))

are_neighbors(pos1, pos2) ==
    \/ (pos1[1] = pos2[1] /\ (pos1[2] - pos2[2] = 1 \/ pos2[2] - pos1[2] = 1))
    \/ (pos1[2] = pos2[2] /\ (pos1[1] - pos2[1] = 1 \/ pos2[1] - pos1[1] = 1))
    \/ (pos1[1] = pos2[1] /\ pos1[2] = pos2[2])

\* the value heuristic_dji leaves in cells the goal cannot be reached from
USIZE_MAX == 2147483647

RECURSIVE dji_relax(_, _, _, _)
dji_relax(g, dist, frontier, cost) ==
    IF frontier = {} THEN dist
    ELSE LET next == {n \in g : /\ n \notin DOMAIN dist
                                /\ \E p \in frontier : are_neighbors(p, n)}
         IN dji_relax(g, dist @@ [n \in next |-> cost + 1], next, cost + 1)

\* Map::heuristic_dji: unit-cost Dijkstra from the goal over passable cells.
heuristic_dji(g, goal) ==
    LET dist == dji_relax(g, (goal :> 0), {goal}, 0)
    IN [p \in g |-> IF p \in DOMAIN dist THEN dist[p] ELSE USIZE_MAX]

----------------------------------------------------------------------------
(* Constraints: src/common/highlevel.rs *)

VertexC(position, time_step, is_permanent) ==
    [kind |-> "Vertex", position |-> position, time_step |-> time_step,
     is_permanent |-> is_permanent]

EdgeC(from_position, to_position, to_time_step) ==
    [kind |-> "Edge", from_position |-> from_position, to_position |-> to_position,
     to_time_step |-> to_time_step]

\* Constraint::is_violated
\* faulty variant: a permanent vertex constraint holds at its time step only
is_violated_at_step(c, from_pos, to_pos, to_tmstep) ==
    IF c.kind = "Vertex"
    THEN to_pos = c.position /\ to_tmstep = c.time_step
    ELSE from_pos = c.from_position /\ to_pos = c.to_position
         /\ to_tmstep = c.to_time_step

is_violated(c, from_pos, to_pos, to_tmstep) ==
    IF c.kind = "Vertex"
    THEN IF to_pos # c.position THEN FALSE
         ELSE IF c.is_permanent THEN to_tmstep >= c.time_step
              ELSE to_tmstep = c.time_step
    ELSE from_pos = c.from_position /\ to_pos = c.to_position
         /\ to_tmstep = c.to_time_step

\* faulty variant: the constraints are never consulted
any_violated_never(constraints, from_pos, to_pos, to_tmstep) == FALSE

any_violated(constraints, from_pos, to_pos, to_tmstep) ==
    \E c \in constraints : is_violated(c, from_pos, to_pos, to_tmstep)

SetMax(S) == CHOOSE x \in S : \A y \in S : y <= x

\* a_star_search / focal_a_star_search: the largest time of any constraint, 0 if none
constraint_limit_time_step(constraints) ==
    IF constraints = {} THEN 0
    ELSE SetMax({IF c.kind = "Vertex" THEN c.time_step ELSE c.to_time_step : c \in constraints})

----------------------------------------------------------------------------
(* Low-level nodes and their two orders: src/common/lowlevel.rs *)

LowLevelNode(position, f_open_cost, f_focal_cost, g_cost, time_step) ==
    [position |-> position, f_open_cost |-> f_open_cost, f_focal_cost |-> f_focal_cost,
     g_cost |-> g_cost, time_step |-> time_step]

PosLess(p, q) == p[1] < q[1] \/ (p[1] = q[1] /\ p[2] < q[2])

\* Ord for OpenOrderWrapper: f_open_cost, then larger g_cost first, then position
OpenCmpLess(a, b) ==
    \/ a.f_open_cost < b.f_open_cost
    \/ /\ a.f_open_cost = b.f_open_cost
       /\ \/ a.g_cost > b.g_cost
          \/ (a.g_cost = b.g_cost /\ PosLess(a.position, b.position))

OpenCmpEq(a, b) ==
    a.f_open_cost = b.f_open_cost /\ a.g_cost = b.g_cost /\ a.position = b.position

\* Ord for FocalOrderWrapper: f_focal_cost, f_open_cost, larger g_cost first, position
FocalCmpLess(a, b) ==
    \/ a.f_focal_cost < b.f_focal_cost
    \/ /\ a.f_focal_cost = b.f_focal_cost
       /\ OpenCmpLess(a, b)

FocalCmpEq(a, b) == a.f_focal_cost = b.f_focal_cost /\ OpenCmpEq(a, b)

\* BTreeSet operations under the two orders
OpenFirst(S) == CHOOSE n \in S : \A m \in S : m = n \/ OpenCmpLess(n, m)
FocalFirst(S) == CHOOSE n \in S : \A m \in S : m = n \/ FocalCmpLess(n, m)

OpenContains(S, n) == \E m \in S : OpenCmpEq(m, n)
FocalContains(S, n) == \E m \in S : FocalCmpEq(m, n)

OpenInsert(S, n) == IF OpenContains(S, n) THEN S ELSE S \cup {n}
FocalInsert(S, n) == IF FocalContains(S, n) THEN S ELSE S \cup {n}

OpenRemove(S, n) == {m \in S : ~OpenCmpEq(m, n)}
FocalRemove(S, n) == {m \in S : ~FocalCmpEq(m, n)}

----------------------------------------------------------------------------
(* Shared helpers of the searches: src/algorithm.rs *)

PathAt(path, t) == IF t < Len(path) THEN path[t + 1] ELSE path[Len(path)]

\* heuristic_focal: conflicts of the move prev_position -> position arriving at
\* `time` with the other agents' paths (paths[b + 1] is agent b's path)
RECURSIVE heuristic_focal_from(_, _, _, _, _, _)
heuristic_focal_from(b, agent, position, prev_position, time, paths) ==
    IF b > Len(paths) THEN 0
    ELSE IF b - 1 = agent
         THEN heuristic_focal_from(b + 1, agent, position, prev_position, time, paths)
         ELSE LET path == paths[b]
                  other_position == PathAt(path, time)
                  vertex == IF other_position = position THEN 1 ELSE 0
                  edge == IF time >= Len(path) THEN 0
                          ELSE IF other_position = prev_position /\ path[time] = position
                               THEN 1 ELSE 0
              IN vertex + edge
                 + heuristic_focal_from(b + 1, agent, position, prev_position, time, paths)

heuristic_focal(agent, position, prev_position, time, paths) ==
    heuristic_focal_from(1, agent, position, prev_position, time, paths)

\* construct_path: walk the trace back from `current`, then reverse
RECURSIVE construct_path(_, _)
construct_path(trace, current) ==
    IF current \in DOMAIN trace
    THEN Append(construct_path(trace, trace[current]), current[1])
    ELSE <<current[1]>>

----------------------------------------------------------------------------
(* A low-level search call.  The arguments are a record q:                 *)
(*   agent (id), constraints, path_length_constraint,                      *)
(*   constraint_limit_time_step, paths, w (<<num, den>>), opt_cost         *)
(*   (<<num, den>>), and the loop state is a record s.                     *)

start_of(q) == agents[q.agent + 1].start
goal_of(q) == agents[q.agent + 1].goal
h_open(q, pos) == heuristic[q.agent + 1][pos]

\* the state the search loops start from: start node in the list(s)
SearchState(open_list, focal_list, f_focal_cost_map, f_min) ==
    [open_list |-> open_list, focal_list |-> focal_list, closed_list |-> {},
     trace |-> << >>, f_focal_cost_map |-> f_focal_cost_map, f_min |-> f_min,
     use_focal |-> TRUE, status |-> "running", path |-> << >>, f_ret |-> 0,
     expand_open |-> 0, expand_focal |-> 0]

\* `tentative_g_cost + h` leaves the range of usize: the addition panics when
\* overflow checks are compiled in (the dev profile) and wraps otherwise
add_overflows(tentative_g_cost, h) == h > USIZE_MAX - tentative_g_cost

tentative_time_step(q, current) ==
    IF current.time_step > q.constraint_limit_time_step
    THEN current.time_step ELSE current.time_step + 1

(* standard_a_star_search_open_cost: src/algorithm/astar.rs *)

OpenCostInit(q) ==
    SearchState({LowLevelNode(start_of(q), h_open(q, start_of(q)), 0, 0, 0)}, {}, << >>, 0)

\* the body of the neighbor loop for one neighbor; acc carries open_list and trace
OpenCostNeighbor(q, current, closed_list, acc, neighbor) ==
    LET tentative_g_cost == current.g_cost + 1
        tts == tentative_time_step(q, current)
        neighbor_node == LowLevelNode(neighbor, tentative_g_cost + h_open(q, neighbor), 0,
                                      tentative_g_cost, tts)
    IN IF <<neighbor, tts>> \in closed_list THEN acc
       ELSE IF any_violated(q.constraints, current.position, neighbor, tentative_g_cost)
            THEN acc
            ELSE IF add_overflows(tentative_g_cost, h_open(q, neighbor))
            THEN [acc EXCEPT !.overflow = TRUE]
            ELSE IF OpenContains(acc.open_list, neighbor_node) THEN acc
                 ELSE [acc EXCEPT
                         !.open_list = @ \cup {neighbor_node},
                         !.trace = (<<neighbor, tentative_g_cost>>
                                       :> <<current.position, current.g_cost>>) @@ @]

RECURSIVE OpenCostNeighbors(_, _, _, _, _, _)
OpenCostNeighbors(q, current, closed_list, acc, neighbors, i) ==
    IF i > Len(neighbors) \/ acc.overflow THEN acc
    ELSE OpenCostNeighbors(q, current, closed_list,
                           OpenCostNeighbor(q, current, closed_list, acc, neighbors[i]),
                           neighbors, i + 1)

\* one iteration of the while loop
OpenCostStep(q, s) ==
    IF s.open_list = {} THEN [s EXCEPT !.status = "none"]
    ELSE
    LET current == OpenFirst(s.open_list)
        popped == s.open_list \ {current}
        exceed == current.time_step > q.constraint_limit_time_step
    IN IF current.position = goal_of(q) /\ current.g_cost > q.path_length_constraint
       THEN [s EXCEPT !.open_list = popped, !.status = "found",
                      !.path = construct_path(s.trace, <<current.position, current.g_cost>>),
                      !.f_ret = current.f_open_cost,
                      !.expand_open = @ + 1]
       ELSE LET closed_list == s.closed_list \cup {<<current.position, current.time_step>>}
                acc == OpenCostNeighbors(q, current, closed_list,
                                         [open_list |-> popped, trace |-> s.trace,
                                          overflow |-> FALSE],
                                         get_neighbors(current.position, ~exceed), 1)
            IN [s EXCEPT !.open_list = acc.open_list, !.closed_list = closed_list,
                         !.trace = acc.trace, !.expand_open = @ + 1,
                         !.status = IF acc.overflow THEN "overflow" ELSE @]

(* standard_a_star_search_focal_cost: src/algorithm/astar.rs *)

FocalCostInit(q) ==
    SearchState({}, {LowLevelNode(start_of(q), h_open(q, start_of(q)), 0, 0, 0)}, << >>, 0)

FocalCostNeighbor(q, current, closed_list, acc, neighbor) ==
    LET tentative_g_cost == current.g_cost + 1
        tts == tentative_time_step(q, current)
        f_open_cost == tentative_g_cost + h_open(q, neighbor)
        f_focal_cost == current.f_focal_cost
                        + heuristic_focal(q.agent, neighbor, current.position,
                                          tentative_g_cost, q.paths)
        neighbor_node == LowLevelNode(neighbor, f_open_cost, f_focal_cost,
                                      tentative_g_cost, tts)
    IN IF add_overflows(tentative_g_cost, h_open(q, neighbor))
       THEN [acc EXCEPT !.overflow = TRUE]
       ELSE IF f_open_cost * q.opt_cost[2] > q.opt_cost[1] THEN acc
       ELSE IF <<neighbor, tts>> \in closed_list THEN acc
       ELSE IF any_violated(q.constraints, current.position, neighbor, tentative_g_cost)
            THEN acc
            ELSE IF FocalContains(acc.focal_list, neighbor_node) THEN acc
                 ELSE [acc EXCEPT
                         !.focal_list = @ \cup {neighbor_node},
                         !.trace = (<<neighbor, tentative_g_cost>>
                                       :> <<current.position, current.g_cost>>) @@ @]

RECURSIVE FocalCostNeighbors(_, _, _, _, _, _)
FocalCostNeighbors(q, current, closed_list, acc, neighbors, i) ==
    IF i > Len(neighbors) \/ acc.overflow THEN acc
    ELSE FocalCostNeighbors(q, current, closed_list,
                            FocalCostNeighbor(q, current, closed_list, acc, neighbors[i]),
                            neighbors, i + 1)

FocalCostStep(q, s) ==
    IF s.focal_list = {} THEN [s EXCEPT !.status = "none"]
    ELSE
    LET current == FocalFirst(s.focal_list)
        popped == s.focal_list \ {current}
        exceed == current.time_step > q.constraint_limit_time_step
    IN IF current.position = goal_of(q) /\ current.g_cost > q.path_length_constraint
       THEN [s EXCEPT !.focal_list = popped, !.status = "found",
                      !.path = construct_path(s.trace, <<current.position, current.g_cost>>),
                      !.f_ret = current.f_open_cost,
                      !.expand_open = @ + 1]
       ELSE LET closed_list == s.closed_list \cup {<<current.position, current.time_step>>}
                acc == FocalCostNeighbors(q, current, closed_list,
                                          [focal_list |-> popped, trace |-> s.trace,
                                           overflow |-> FALSE],
                                          get_neighbors(current.position, ~exceed), 1)
            IN [s EXCEPT !.focal_list = acc.focal_list, !.closed_list = closed_list,
                         !.trace = acc.trace, !.expand_open = @ + 1,
                         !.status = IF acc.overflow THEN "overflow" ELSE @]

(* standard_focal_a_star_search and alternating_focal_a_star_search:       *)
(* src/algorithm/astarfocal.rs                                             *)

Max(a, b) == IF a >= b THEN a ELSE b

\* faulty variant: every node is taken to be within the focal bound
WithinBoundAlways(f_open_cost, f_min, w) == TRUE

\* f_open_cost as f64 <= f_min as f64 * subopt_factor
WithinBound(f_open_cost, f_min, w) == f_open_cost * w[2] <= f_min * w[1]

FocalInit(q) ==
    LET start_node == LowLevelNode(start_of(q), h_open(q, start_of(q)), 0, 0, 0)
    IN SearchState({start_node}, {start_node}, (<<start_of(q), 0>> :> 0), 0)

\* The body of the neighbor loop, shared by the two dual-queue searches.
\* node_time_step is the time_step given to the node that is created:
\* tentative_g_cost in standard_focal_a_star_search, tentative_time_step in
\* alternating_focal_a_star_search.  acc carries open_list, focal_list,
\* trace, f_focal_cost_map and whether an assert! failed.
FocalNeighbor(q, current, closed_list, f_min, acc, neighbor, node_time_step) ==
    LET tentative_g_cost == current.g_cost + 1
        tts == tentative_time_step(q, current)
        f_open_cost == tentative_g_cost + h_open(q, neighbor)
        f_focal_cost == current.f_focal_cost
                        + heuristic_focal(q.agent, neighbor, current.position,
                                          tentative_g_cost, q.paths)
        node == LowLevelNode(neighbor, f_open_cost, f_focal_cost, tentative_g_cost,
                             node_time_step)
        key == <<neighbor, tentative_g_cost>>
    IN IF <<neighbor, tts>> \in closed_list THEN acc
       ELSE IF any_violated(q.constraints, current.position, neighbor, tentative_g_cost)
       THEN acc
       ELSE IF add_overflows(tentative_g_cost, h_open(q, neighbor))
       THEN [acc EXCEPT !.overflow = TRUE]
       ELSE IF key \in DOMAIN acc.f_focal_cost_map
       THEN LET old_f_focal_cost == acc.f_focal_cost_map[key]
                old_node == LowLevelNode(neighbor, f_open_cost, old_f_focal_cost,
                                         tentative_g_cost, tts)
                updated == [acc EXCEPT !.f_focal_cost_map[key] = f_focal_cost]
            IN IF ~(f_focal_cost < old_f_focal_cost) THEN acc
               ELSE IF FocalContains(acc.focal_list, old_node)
               THEN [updated EXCEPT
                       !.panicked = @ \/ ~OpenContains(acc.open_list, old_node),
                       !.open_list = OpenInsert(OpenRemove(acc.open_list, old_node), node),
                       !.focal_list = FocalInsert(FocalRemove(acc.focal_list, old_node), node)]
               ELSE IF OpenContains(acc.open_list, old_node)
               THEN [updated EXCEPT
                       !.open_list = OpenInsert(OpenRemove(acc.open_list, old_node), node)]
               ELSE updated
       ELSE [acc EXCEPT
               !.panicked = @ \/ OpenContains(acc.open_list, node),
               !.open_list = OpenInsert(acc.open_list, node),
               !.trace = (key :> <<current.position, current.g_cost>>) @@ acc.trace,
               !.f_focal_cost_map = (key :> f_focal_cost) @@ acc.f_focal_cost_map,
               !.focal_list = IF WithinBound(f_open_cost, f_min, q.w)
                              THEN FocalInsert(acc.focal_list, node)
                              ELSE acc.focal_list]

RECURSIVE FocalNeighbors(_, _, _, _, _, _, _, _)
FocalNeighbors(q, current, closed_list, f_min, acc, neighbors, i, alternating) ==
    IF i > Len(neighbors) \/ acc.overflow THEN acc
    ELSE FocalNeighbors(q, current, closed_list, f_min,
             FocalNeighbor(q, current, closed_list, f_min, acc, neighbors[i],
                           IF alternating THEN tentative_time_step(q, current)
                           ELSE current.g_cost + 1),
             neighbors, i + 1, alternating)

\* faulty variant: every open node enters the focal list
MaintainFocalAll(open_list, focal_list, f_min, w) ==
    focal_list \cup {n \in open_list : ~FocalContains(focal_list, n)}

\* faulty variant: no open node is promoted when f_min rises
MaintainFocalNever(open_list, focal_list, f_min, w) == focal_list

\* "Maintain the focal list": open nodes whose f_open_cost lies in
\* (f_min * w, new_f_min * w] enter the focal list
MaintainFocal(open_list, focal_list, f_min, w) ==
    IF open_list = {} THEN focal_list
    ELSE LET new_f_min == OpenFirst(open_list).f_open_cost
         IN IF f_min < new_f_min
            THEN focal_list \cup
                 {n \in open_list : /\ ~WithinBound(n.f_open_cost, f_min, w)
                                    /\ WithinBound(n.f_open_cost, new_f_min, w)
                                    /\ ~FocalContains(focal_list, n)}
            ELSE focal_list

\* the end of an iteration: acc is what the neighbor loop has left
FocalFinish(q, s, closed_list, f_min, acc, alternating) ==
    IF acc.overflow THEN [s EXCEPT !.closed_list = closed_list, !.status = "overflow"]
    ELSE
    [s EXCEPT
       !.open_list = acc.open_list,
       !.focal_list = MaintainFocal(acc.open_list, acc.focal_list, f_min, q.w),
       !.closed_list = closed_list,
       !.trace = acc.trace,
       !.f_focal_cost_map = acc.f_focal_cost_map,
       !.f_min = IF alternating /\ acc.open_list # {}
                 THEN OpenFirst(acc.open_list).f_open_cost ELSE f_min,
       !.status = IF acc.panicked THEN "panic" ELSE "running"]

\* the rest of an iteration once `current` has left both lists
FocalExpand(q, s, current, open_list, focal_list, f_min, alternating) ==
    LET exceed == current.time_step > q.constraint_limit_time_step
        closed_list == s.closed_list \cup {<<current.position, current.time_step>>}
    IN IF current.position = goal_of(q) /\ current.g_cost > q.path_length_constraint
       THEN [s EXCEPT !.open_list = open_list, !.focal_list = focal_list,
                      !.closed_list = closed_list, !.f_min = f_min,
                      !.status = "found",
                      !.path = construct_path(s.trace, <<current.position, current.g_cost>>),
                      !.f_ret = f_min]
       ELSE FocalFinish(q, s, closed_list, f_min,
                FocalNeighbors(q, current, closed_list, f_min,
                    [open_list |-> open_list, focal_list |-> focal_list,
                     trace |-> s.trace, f_focal_cost_map |-> s.f_focal_cost_map,
                     panicked |-> FALSE, overflow |-> FALSE],
                    get_neighbors(current.position, ~exceed), 1, alternating),
                alternating)

\* one iteration of the while loop of standard_focal_a_star_search
StandardFocalStep(q, s) ==
    IF s.focal_list = {} THEN [s EXCEPT !.status = "none"]
    ELSE LET current == FocalFirst(s.focal_list)
             counted == [s EXCEPT !.expand_focal = @ + 1]
         IN IF ~OpenContains(s.open_list, current)
            THEN [counted EXCEPT !.status = "panic"]
            ELSE FocalExpand(q, counted, current, OpenRemove(s.open_list, current),
                             s.focal_list \ {current},
                             Max(OpenFirst(s.open_list).f_open_cost, s.f_min), FALSE)

\* one iteration of the while loop of alternating_focal_a_star_search; the
\* expansion counters are incremented once in the branch and once more after
\* use_focal has been toggled
AlternatingFocalStep(q, s) ==
    IF s.open_list = {} THEN [s EXCEPT !.status = "none"]
    ELSE IF s.use_focal /\ s.focal_list # {}
    THEN LET current == FocalFirst(s.focal_list)
             counted == [s EXCEPT !.expand_focal = @ + 1, !.expand_open = @ + 1,
                                  !.use_focal = FALSE]
         IN IF ~OpenContains(s.open_list, current)
            THEN [counted EXCEPT !.status = "panic"]
            ELSE FocalExpand(q, counted, current, OpenRemove(s.open_list, current),
                             s.focal_list \ {current},
                             Max(OpenFirst(s.open_list).f_open_cost, s.f_min), TRUE)
    ELSE LET current == OpenFirst(s.open_list)
             counted == [s EXCEPT !.expand_open = @ + 1, !.expand_focal = @ + 1,
                                  !.use_focal = TRUE]
         IN FocalExpand(q, counted, current, s.open_list \ {current},
                        FocalRemove(s.focal_list, current),
                        Max(current.f_open_cost, s.f_min), TRUE)

----------------------------------------------------------------------------
(* Running a search loop to its return *)

SearchInit(kind, q) ==
    CASE kind = "open_cost" -> OpenCostInit(q)
      [] kind = "focal_cost" -> FocalCostInit(q)
      [] kind = "standard_focal" -> FocalInit(q)
      [] kind = "alternating_focal" -> FocalInit(q)

SearchStep(kind, q, s) ==
    CASE kind = "open_cost" -> OpenCostStep(q, s)
      [] kind = "focal_cost" -> FocalCostStep(q, s)
      [] kind = "standard_focal" -> StandardFocalStep(q, s)
      [] kind = "alternating_focal" -> AlternatingFocalStep(q, s)

\* iterate the loop until it returns; a loop still running after n
\* iterations is reported as "diverge"
RECURSIVE SearchRun(_, _, _, _)
SearchRun(kind, q, s, n) ==
    IF s.status # "running" THEN s
    ELSE IF n = 0 THEN [s EXCEPT !.status = "diverge"]
    ELSE SearchRun(kind, q, SearchStep(kind, q, s), n - 1)

Query(agent, constraints, path_length_constraint, paths, w) ==
    [agent |-> agent, constraints |-> constraints,
     path_length_constraint |-> path_length_constraint,
     constraint_limit_time_step |-> constraint_limit_time_step(constraints),
     paths |-> paths, w |-> w, opt_cost |-> <<0, 1>>]

\* the bound the second pass of the double search runs under: f_min * w
SecondPassQuery(q, f_min) == [q EXCEPT !.opt_cost = <<f_min * q.w[1], q.w[2]>>]

\* the second pass of the double search, `first` being the result of the first
double_search_second_pass(q, first) ==
    IF first.status = "found"
    THEN SearchRun("focal_cost", SecondPassQuery(q, first.f_ret),
                   FocalCostInit(SecondPassQuery(q, first.f_ret)), MaxExpansions)
    ELSE first

standard_focal_double_search(q) ==
    double_search_second_pass(q, SearchRun("open_cost", q, OpenCostInit(q), MaxExpansions))

----------------------------------------------------------------------------
(* MDD: src/algorithm.rs construct_mdd, src/common.rs is_singleton_at_position *)

SeqRange(seq) == {seq[i] : i \in 1..Len(seq)}

\* the neighbors the forward pass links pos at `depth` to
\* faulty variant: a cell is linked to the first neighbor that qualifies only
mdd_children_first(agent, constraints, optimal_cost, pos, depth) ==
    LET qualifying == SelectSeq(get_neighbors(pos, TRUE),
                          LAMBDA n : /\ ~any_violated(constraints, pos, n, depth + 1)
                                     /\ heuristic[agent + 1][n]
                                          <= optimal_cost - (depth + 1))
    IN IF qualifying = << >> THEN {} ELSE {qualifying[1]}

mdd_children(agent, constraints, optimal_cost, pos, depth) ==
    {n \in SeqRange(get_neighbors(pos, TRUE)) :
        /\ ~any_violated(constraints, pos, n, depth + 1)
        /\ heuristic[agent + 1][n] <= optimal_cost - (depth + 1)}

\* forward pass: layers 0..optimal_cost, each a function cell -> children
RECURSIVE mdd_forward(_, _, _, _, _)
mdd_forward(agent, constraints, optimal_cost, layer, depth) ==
    IF depth = optimal_cost THEN << [p \in layer |-> {}] >>
    ELSE LET children == [p \in layer |->
                            mdd_children(agent, constraints, optimal_cost, p, depth)]
         IN << children >> \o
            mdd_forward(agent, constraints, optimal_cost,
                        UNION {children[p] : p \in layer}, depth + 1)

\* faulty variant: no cell is pruned
mdd_backward_none(mdd, depth) == mdd

\* backward pass from layer `depth` down to layer 0 (layers are 1-indexed here)
RECURSIVE mdd_backward(_, _)
mdd_backward(mdd, depth) ==
    IF depth = 0 THEN mdd
    ELSE LET next_layer == DOMAIN mdd[depth + 1]
             kept == {p \in DOMAIN mdd[depth] : mdd[depth][p] \cap next_layer # {}}
         IN mdd_backward([mdd EXCEPT ![depth] = [p \in kept |-> mdd[depth][p]]], depth - 1)

\* the two assertions between the passes
mdd_asserts_hold(agent, forward, optimal_cost) ==
    /\ Cardinality(DOMAIN forward[optimal_cost + 1]) = 1
    /\ agents[agent + 1].goal \in DOMAIN forward[optimal_cost + 1]

construct_mdd(agent, constraints, optimal_cost) ==
    mdd_backward(mdd_forward(agent, constraints, optimal_cost,
                             {agents[agent + 1].start}, 0),
                 optimal_cost)

is_singleton_at_position(mdd, time_step, position) ==
    IF time_step >= Len(mdd) THEN TRUE
    ELSE DOMAIN mdd[time_step + 1] = {position}

----------------------------------------------------------------------------
(* The two entry points the CT node calls.  A result is a record           *)
(* [status, path, f_min, mdd]; status "found" is Some, "none" is None,     *)
(* "panic" a failed assertion, "overflow" an addition that left the range *)
(* of usize; mdd = << >> is no MDD.                                        *)

Result(status, path, f_min, mdd) ==
    [status |-> status, path |-> path, f_min |-> f_min, mdd |-> mdd]

\* what a_star_search makes of the search result r
a_star_result(agent, constraints, build_mdd, r) ==
    IF r.status # "found" THEN Result(r.status, << >>, 0, << >>)
    ELSE IF ~build_mdd THEN Result("found", r.path, r.f_ret, << >>)
    ELSE IF Len(r.path) - 1 # r.f_ret THEN Result("panic", r.path, r.f_ret, << >>)
    ELSE IF ~mdd_asserts_hold(agent,
                 mdd_forward(agent, constraints, r.f_ret, {agents[agent + 1].start}, 0),
                 r.f_ret)
    THEN Result("panic", r.path, r.f_ret, << >>)
    ELSE Result("found", r.path, r.f_ret, construct_mdd(agent, constraints, r.f_ret))

\* a_star_search: src/algorithm/astar.rs
a_star_search(agent, constraints, path_length_constraint, build_mdd) ==
    LET q == Query(agent, constraints, path_length_constraint, << >>, <<1, 1>>)
    IN a_star_result(agent, constraints, build_mdd,
                     SearchRun("open_cost", q, OpenCostInit(q), MaxExpansions))

----------------------------------------------------------------------------
(* The traversals of hash containers, in the order the container yields.    *)
(* A HashSet or HashMap iterates in an order fixed by the keys of its      *)
(* hasher, which differ from one run to the next: the order is an input.   *)
(* `iter` is the constraint set as its iterator yields it, `order` the     *)
(* cells in the order a container of cells yields the ones it holds.       *)

\* the elements of S as a container of cells yields them
iter_cells(order, S) == SelectSeq(order, LAMBDA p : p \in S)

\* faulty variant: only the constraint the iterator yields first is tested
any_first_in_order(iter, from_pos, to_pos, to_tmstep, i) ==
    iter # << >> /\ is_violated(iter[1], from_pos, to_pos, to_tmstep)

\* constraints.iter().any(|c| c.is_violated(..)): stops at the first hit
RECURSIVE any_in_order(_, _, _, _, _)
any_in_order(iter, from_pos, to_pos, to_tmstep, i) ==
    IF i > Len(iter) THEN FALSE
    ELSE IF is_violated(iter[i], from_pos, to_pos, to_tmstep) THEN TRUE
    ELSE any_in_order(iter, from_pos, to_pos, to_tmstep, i + 1)

\* constraints.iter().map(time step).max().unwrap_or(0); acc = << >> is None
RECURSIVE limit_in_order(_, _, _)
limit_in_order(iter, i, acc) ==
    IF i > Len(iter) THEN (IF acc = << >> THEN 0 ELSE acc[1])
    ELSE LET t == IF iter[i].kind = "Vertex" THEN iter[i].time_step
                  ELSE iter[i].to_time_step
         IN limit_in_order(iter, i + 1,
                           IF acc = << >> \/ acc[1] <= t THEN <<t>> ELSE acc)

\* for neighbor in map.get_neighbors(pos.0, pos.1, true): layer `depth` is
\* mdd[depth + 1], a function cell -> children
RECURSIVE mdd_neighbors_in_order(_, _, _, _, _, _, _, _)
mdd_neighbors_in_order(agent, iter, optimal_cost, mdd, depth, pos, neighbors, i) ==
    IF i > Len(neighbors) THEN mdd
    ELSE mdd_neighbors_in_order(agent, iter, optimal_cost,
             IF any_in_order(iter, pos, neighbors[i], depth + 1, 1) THEN mdd
             ELSE IF heuristic[agent + 1][neighbors[i]] <= optimal_cost - (depth + 1)
             THEN [mdd EXCEPT ![depth + 2] =
                                  IF neighbors[i] \in DOMAIN @ THEN @
                                  ELSE @ @@ (neighbors[i] :> {}),
                              ![depth + 1][pos] = @ \cup {neighbors[i]}]
             ELSE mdd,
             depth, pos, neighbors, i + 1)

\* for (&pos, _) in mdd[depth].clone().iter()
RECURSIVE mdd_layer_in_order(_, _, _, _, _, _, _)
mdd_layer_in_order(agent, iter, optimal_cost, mdd, depth, keys, i) ==
    IF i > Len(keys) THEN mdd
    ELSE mdd_layer_in_order(agent, iter, optimal_cost,
             mdd_neighbors_in_order(agent, iter, optimal_cost, mdd, depth, keys[i],
                                    get_neighbors(keys[i], TRUE), 1),
             depth, keys, i + 1)

\* for depth in 0..optimal_cost
RECURSIVE mdd_forward_in_order(_, _, _, _, _, _)
mdd_forward_in_order(agent, iter, order, optimal_cost, mdd, depth) ==
    IF depth = optimal_cost THEN mdd
    ELSE mdd_forward_in_order(agent, iter, order, optimal_cost,
             mdd_layer_in_order(agent, iter, optimal_cost, mdd, depth,
                                iter_cells(order, DOMAIN mdd[depth + 1]), 1),
             depth + 1)

\* mdd[depth].retain(|_, node| node.children.iter().any(|child| ..))
RECURSIVE mdd_retain_in_order(_, _, _, _, _)
mdd_retain_in_order(order, layer, next_layer, keys, i) ==
    IF i > Len(keys) THEN layer
    ELSE mdd_retain_in_order(order,
             IF SelectSeq(iter_cells(order, layer[keys[i]]),
                          LAMBDA child : child \in next_layer) # << >>
             THEN layer
             ELSE [p \in DOMAIN layer \ {keys[i]} |-> layer[p]],
             next_layer, keys, i + 1)

\* for depth in (0..optimal_cost).rev()
RECURSIVE mdd_backward_in_order(_, _, _)
mdd_backward_in_order(order, mdd, depth) ==
    IF depth = 0 THEN mdd
    ELSE mdd_backward_in_order(order,
             [mdd EXCEPT ![depth] =
                 mdd_retain_in_order(order, @, DOMAIN mdd[depth + 1],
                                     iter_cells(order, DOMAIN @), 1)],
             depth - 1)

\* construct_mdd with its two assertions: "panic" when one fails
construct_mdd_in_order(agent, iter, order, optimal_cost) ==
    LET forward == mdd_forward_in_order(agent, iter, order, optimal_cost,
                       [d \in 1..(optimal_cost + 1) |->
                           IF d = 1 THEN (agents[agent + 1].start :> {}) ELSE << >>],
                       0)
    IN IF ~mdd_asserts_hold(agent, forward, optimal_cost)
       THEN [status |-> "panic", mdd |-> << >>]
       ELSE [status |-> "found",
             mdd |-> mdd_backward_in_order(order, forward, optimal_cost)]

\* the match on `solver` in focal_a_star_search: the search loop of each arm
focal_dispatch_kind(q, solver) ==
    CASE solver = "decbs" ->
            IF q.constraints # {} THEN "double_search" ELSE "standard_focal"
      [] solver \in {"lbcbs", "bcbs", "ecbs"} -> "standard_focal"
      [] solver = "acbs" -> "alternating_focal"

focal_dispatch(q, solver) ==
    IF focal_dispatch_kind(q, solver) = "double_search"
    THEN standard_focal_double_search(q)
    ELSE SearchRun(focal_dispatch_kind(q, solver), q, FocalInit(q), MaxExpansions)

\* what focal_a_star_search makes of the search result r
focal_a_star_result(agent, subopt_factor, constraints, build_mdd, r) ==
    IF r.status # "found" THEN Result(r.status, << >>, 0, << >>)
    ELSE IF ~build_mdd THEN Result("found", r.path, r.f_ret, << >>)
    ELSE IF ~WithinBound(Len(r.path) - 1, r.f_ret, subopt_factor)
    THEN Result("panic", r.path, r.f_ret, << >>)
    ELSE IF Len(r.path) - 1 # r.f_ret THEN Result("found", r.path, r.f_ret, << >>)
    ELSE IF ~mdd_asserts_hold(agent,
                 mdd_forward(agent, constraints, r.f_ret, {agents[agent + 1].start}, 0),
                 r.f_ret)
    THEN Result("panic", r.path, r.f_ret, << >>)
    ELSE Result("found", r.path, r.f_ret, construct_mdd(agent, constraints, r.f_ret))

\* focal_a_star_search: src/algorithm/astarfocal.rs
focal_a_star_search(agent, subopt_factor, constraints, L, paths, build_mdd, solver) ==
    focal_a_star_result(agent, subopt_factor, constraints, build_mdd,
        focal_dispatch(Query(agent, constraints, L, paths, subopt_factor), solver))

----------------------------------------------------------------------------
(* Conflicts and the CT node: src/common/highlevel.rs *)

VertexConflict(agent_1, agent_2, position, time_step, cardinal_type) ==
    [agent_1 |-> agent_1, agent_2 |-> agent_2,
     conflict_type |-> [kind |-> "Vertex", position |-> position, time_step |-> time_step],
     cardinal_type |-> cardinal_type]

EdgeConflict(agent_1, agent_2, from_position, to_position, to_time_step, cardinal_type) ==
    [agent_1 |-> agent_1, agent_2 |-> agent_2,
     conflict_type |-> [kind |-> "Edge", from_position |-> from_position,
                        to_position |-> to_position, to_time_step |-> to_time_step],
     cardinal_type |-> cardinal_type]

\* faulty variant: the conflict of a parked agent is built as a Vertex conflict
TargetAsVertexConflict(agent_1, agent_2, position, time_step, cardinal_type) ==
    VertexConflict(agent_1, agent_2, position, time_step, cardinal_type)

TargetConflict(agent_1, agent_2, position, time_step, cardinal_type) ==
    [agent_1 |-> agent_1, agent_2 |-> agent_2,
     conflict_type |-> [kind |-> "Target", position |-> position, time_step |-> time_step],
     cardinal_type |-> cardinal_type]

\* derive(Ord): variants compare by their position in the enum, then by
\* their fields in order; Vec compares element by element, a proper prefix
\* being smaller.  A value is flattened to the sequence of integers that
\* comparison walks through, and EndMark closes every Vec.
EndMark == 0 - 1

ConflictTypeKey(t) ==
    CASE t.kind = "Vertex" -> <<0, t.position[1], t.position[2], t.time_step>>
      [] t.kind = "Edge" -> <<1, t.from_position[1], t.from_position[2],
                              t.to_position[1], t.to_position[2], t.to_time_step>>
      [] t.kind = "Target" -> <<2, t.position[1], t.position[2], t.time_step>>

CardinalTypeKey(c) ==
    CASE c = "Cardinal" -> 0
      [] c = "SemiCardinal" -> 1
      [] c = "NonCardinal" -> 2
      [] c = "Unknown" -> 3

ConflictKey(c) ==
    <<c.agent_1, c.agent_2>> \o ConflictTypeKey(c.conflict_type)
        \o <<CardinalTypeKey(c.cardinal_type)>>

RECURSIVE ConflictsKey(_, _)
ConflictsKey(conflicts, i) ==
    IF i > Len(conflicts) THEN <<EndMark>>
    ELSE ConflictKey(conflicts[i]) \o ConflictsKey(conflicts, i + 1)

RECURSIVE PathKey(_, _)
PathKey(path, i) ==
    IF i > Len(path) THEN <<EndMark>>
    ELSE <<path[i][1], path[i][2]>> \o PathKey(path, i + 1)

RECURSIVE PathsKey(_, _)
PathsKey(paths, i) ==
    IF i > Len(paths) THEN <<EndMark>>
    ELSE PathKey(paths[i], 1) \o PathsKey(paths, i + 1)

RECURSIVE LexLess(_, _, _)
LexLess(a, b, i) ==
    IF i > Len(b) THEN FALSE
    ELSE IF i > Len(a) THEN TRUE
    ELSE IF a[i] # b[i] THEN a[i] < b[i]
    ELSE LexLess(a, b, i + 1)

HighLevelOpenNode(constraints, path_length_constraints, conflicts, paths, cost, low_level_f_min_agents, mdds) ==
    [constraints |-> constraints, path_length_constraints |-> path_length_constraints,
     conflicts |-> conflicts, paths |-> paths, cost |-> cost,
     low_level_f_min_agents |-> low_level_f_min_agents, mdds |-> mdds]

\* impl Ord for HighLevelOpenNode: cost, then conflicts, then paths
HLOpenEq(a, b) == a.cost = b.cost /\ a.conflicts = b.conflicts /\ a.paths = b.paths

HLOpenLess(a, b) ==
    IF a.cost # b.cost THEN a.cost < b.cost
    ELSE LexLess(ConflictsKey(a.conflicts, 1) \o PathsKey(a.paths, 1),
                 ConflictsKey(b.conflicts, 1) \o PathsKey(b.paths, 1), 1)

HighLevelFocalNode(constraints, path_length_constraints, conflicts, paths, focal_cost, cost, low_level_f_min_agents, mdds) ==
    [constraints |-> constraints, path_length_constraints |-> path_length_constraints,
     conflicts |-> conflicts, paths |-> paths, focal |-> focal_cost, cost |-> cost,
     low_level_f_min_agents |-> low_level_f_min_agents, mdds |-> mdds]

\* impl Ord for HighLevelFocalNode: focal, cost, conflicts, paths
HLFocalEq(a, b) == a.focal = b.focal /\ HLOpenEq(a, b)

HLFocalLess(a, b) ==
    IF a.focal # b.focal THEN a.focal < b.focal ELSE HLOpenLess(a, b)

to_focal_node(node) ==
    HighLevelFocalNode(node.constraints, node.path_length_constraints, node.conflicts,
                       node.paths, Len(node.conflicts), node.cost,
                       node.low_level_f_min_agents, node.mdds)

to_open_node(node) ==
    HighLevelOpenNode(node.constraints, node.path_length_constraints, node.conflicts,
                      node.paths, node.cost, node.low_level_f_min_agents, node.mdds)

\* faulty variant of HLOpenFirst: the node the order puts last
HLOpenLast(S) == CHOOSE n \in S : \A m \in S : HLOpenEq(m, n) \/ HLOpenLess(m, n)

\* faulty variant of HLOpenInsert: the list is keyed by the whole node
HLOpenInsertWhole(S, n) == S \cup {n}

\* BTreeSet operations under these orders: first, insert (an element that
\* compares equal is already present and is kept), remove
HLOpenFirst(S) == CHOOSE n \in S : \A m \in S : HLOpenEq(m, n) \/ HLOpenLess(n, m)
HLFocalFirst(S) == CHOOSE n \in S : \A m \in S : HLFocalEq(m, n) \/ HLFocalLess(n, m)
HLOpenInsert(S, n) == IF \E m \in S : HLOpenEq(m, n) THEN S ELSE S \cup {n}
HLFocalInsert(S, n) == IF \E m \in S : HLFocalEq(m, n) THEN S ELSE S \cup {n}
HLOpenRemove(S, n) == {m \in S : ~HLOpenEq(m, n)}
HLFocalRemove(S, n) == {m \in S : ~HLFocalEq(m, n)}

RECURSIVE SeqSum(_, _)
SeqSum(seq, i) == IF i > Len(seq) THEN 0 ELSE seq[i] + SeqSum(seq, i + 1)

\* the cardinal type of a conflict from the two agents' MDDs (<< >> is None)
CardinalOf(singleton1, singleton2) ==
    IF singleton1 /\ singleton2 THEN "Cardinal"
    ELSE IF singleton1 \/ singleton2 THEN "SemiCardinal"
    ELSE "NonCardinal"

vertex_cardinal_type(mdd1, mdd2, step, pos1, pos2) ==
    IF Len(mdd1) > 0 /\ Len(mdd2) > 0
    THEN CardinalOf(is_singleton_at_position(mdd1, step, pos1),
                    is_singleton_at_position(mdd2, step, pos2))
    ELSE IF Len(mdd1) > 0 \/ Len(mdd2) > 0
    THEN LET mdd == IF Len(mdd1) > 0 THEN mdd1 ELSE mdd2
         IN IF is_singleton_at_position(mdd, step, pos1)
            THEN "SemiCardinal" ELSE "NonCardinal"
    ELSE "Unknown"

edge_cardinal_type(mdd1, mdd2, step, prev_pos1, pos1, prev_pos2, pos2) ==
    IF Len(mdd1) > 0 /\ Len(mdd2) > 0
    THEN CardinalOf(is_singleton_at_position(mdd1, step - 1, prev_pos1)
                        /\ is_singleton_at_position(mdd1, step, pos1),
                    is_singleton_at_position(mdd2, step - 1, prev_pos2)
                        /\ is_singleton_at_position(mdd2, step, pos2))
    ELSE IF Len(mdd1) > 0 \/ Len(mdd2) > 0
    THEN LET mdd == IF Len(mdd1) > 0 THEN mdd1 ELSE mdd2
         IN IF is_singleton_at_position(mdd, step - 1, prev_pos1)
               /\ is_singleton_at_position(mdd, step, pos1)
            THEN "SemiCardinal" ELSE "NonCardinal"
    ELSE "Unknown"

\* the body of the loop over `step` for the pair i < j (agent ids)
conflicts_at_step(i, j, step, paths, mdds, op_target_reasoning) ==
    LET path1 == paths[i + 1]
        path2 == paths[j + 1]
        pos1 == PathAt(path1, step)
        pos2 == PathAt(path2, step)
        cardinal_type == vertex_cardinal_type(mdds[i + 1], mdds[j + 1], step, pos1, pos2)
        target_type == IF op_target_reasoning THEN cardinal_type ELSE "Unknown"
        vertex ==
            IF pos1 # pos2 THEN << >>
            ELSE IF step >= Len(path1) - 1 /\ pos1 = agents[i + 1].goal
            THEN <<TargetConflict(i, j, pos1, step, target_type)>>
            ELSE IF step >= Len(path2) - 1 /\ pos2 = agents[j + 1].goal
            THEN <<TargetConflict(j, i, pos2, step, target_type)>>
            ELSE <<VertexConflict(i, j, pos1, step, cardinal_type)>>
        edge ==
            IF step >= Len(path1) \/ step >= Len(path2) THEN << >>
            ELSE LET prev_pos1 == path1[step]
                     prev_pos2 == path2[step]
                 IN IF prev_pos1 = pos2 /\ prev_pos2 = pos1
                    THEN <<EdgeConflict(i, j, prev_pos1, pos1, step,
                              edge_cardinal_type(mdds[i + 1], mdds[j + 1], step,
                                                 prev_pos1, pos1, prev_pos2, pos2))>>
                    ELSE << >>
    IN vertex \o edge

\* faulty variant: the steps end with the shorter path
RECURSIVE pair_conflicts_unpadded(_, _, _, _, _, _)
pair_conflicts_unpadded(i, j, step, paths, mdds, op_target_reasoning) ==
    IF step >= Len(paths[i + 1]) \/ step >= Len(paths[j + 1]) THEN << >>
    ELSE conflicts_at_step(i, j, step, paths, mdds, op_target_reasoning)
         \o pair_conflicts_unpadded(i, j, step + 1, paths, mdds, op_target_reasoning)

RECURSIVE pair_conflicts(_, _, _, _, _, _)
pair_conflicts(i, j, step, paths, mdds, op_target_reasoning) ==
    IF step >= Max(Len(paths[i + 1]), Len(paths[j + 1])) THEN << >>
    ELSE conflicts_at_step(i, j, step, paths, mdds, op_target_reasoning)
         \o pair_conflicts(i, j, step + 1, paths, mdds, op_target_reasoning)

RECURSIVE detect_conflicts_from(_, _, _, _, _)
detect_conflicts_from(i, j, paths, mdds, op_target_reasoning) ==
    IF i >= Len(paths) THEN << >>
    ELSE IF j >= Len(paths)
    THEN detect_conflicts_from(i + 1, i + 2, paths, mdds, op_target_reasoning)
    ELSE pair_conflicts(i, j, 1, paths, mdds, op_target_reasoning)
         \o detect_conflicts_from(i, j + 1, paths, mdds, op_target_reasoning)

\* faulty variant: no conflict is ever detected
detect_conflicts_never(paths, mdds, op_target_reasoning) == << >>

detect_conflicts(paths, mdds, op_target_reasoning) ==
    detect_conflicts_from(0, 1, paths, mdds, op_target_reasoning)

\* faulty variant: target reasoning is left out, and so is the path length bound
convert_conflict_without_target(conflict, resolve_first, target_reasoning, agent_to_update, constraints, path_length_constraints) ==
    [constraints |->
        IF conflict.conflict_type.kind = "Edge" THEN constraints
        ELSE [constraints EXCEPT ![agent_to_update + 1] =
                 @ \cup {VertexC(conflict.conflict_type.position,
                                 conflict.conflict_type.time_step, FALSE)}],
     path_length_constraints |-> path_length_constraints]

\* faulty variant: the edge constraint of the second agent is not reversed
convert_conflict_one_direction(conflict, resolve_first, target_reasoning, agent_to_update, constraints, path_length_constraints) ==
    LET t == conflict.conflict_type
        c == CASE t.kind = "Edge" -> EdgeC(t.from_position, t.to_position, t.to_time_step)
               [] OTHER -> VertexC(t.position, t.time_step, FALSE)
    IN [constraints |-> [constraints EXCEPT ![agent_to_update + 1] = @ \cup {c}],
        path_length_constraints |->
            IF t.kind = "Target" /\ resolve_first
            THEN [path_length_constraints EXCEPT ![agent_to_update + 1] = Max(@, t.time_step)]
            ELSE path_length_constraints]

\* faulty variant: no constraint is added
convert_conflict_to_nothing(conflict, resolve_first, target_reasoning, agent_to_update, constraints, path_length_constraints) ==
    [constraints |-> constraints, path_length_constraints |-> path_length_constraints]

\* faulty variant: a target conflict resolved against its first agent raises
\* the path length constraint without constraining the goal cell
convert_conflict_length_only(conflict, resolve_first, target_reasoning, agent_to_update, constraints, path_length_constraints) ==
    LET t == conflict.conflict_type
    IN IF t.kind = "Target" /\ resolve_first
       THEN [constraints |-> constraints,
             path_length_constraints |->
                 [path_length_constraints EXCEPT ![agent_to_update + 1] = Max(@, t.time_step)]]
       ELSE convert_conflict_to_nothing(conflict, resolve_first, target_reasoning,
                                        agent_to_update, constraints, path_length_constraints)

\* convert_conflict_to_constraint: the constraints and path length
\* constraints of all agents after the conflict is resolved against one side
convert_conflict_to_constraint(conflict, resolve_first, target_reasoning, agent_to_update, constraints, path_length_constraints) ==
    LET t == conflict.conflict_type
        one(c) == [constraints EXCEPT ![agent_to_update + 1] = @ \cup {c}]
    IN CASE t.kind = "Vertex" ->
              [constraints |-> one(VertexC(t.position, t.time_step, FALSE)),
               path_length_constraints |-> path_length_constraints]
         [] t.kind = "Edge" ->
              [constraints |->
                   one(IF resolve_first
                       THEN EdgeC(t.from_position, t.to_position, t.to_time_step)
                       ELSE EdgeC(t.to_position, t.from_position, t.to_time_step)),
               path_length_constraints |-> path_length_constraints]
         [] t.kind = "Target" ->
              IF target_reasoning /\ ~resolve_first
              THEN [constraints |->
                        [a \in 1..Len(constraints) |->
                            IF a - 1 # conflict.agent_1
                            THEN constraints[a] \cup {VertexC(t.position, t.time_step, TRUE)}
                            ELSE constraints[a]],
                    path_length_constraints |-> path_length_constraints]
              ELSE [constraints |-> one(VertexC(t.position, t.time_step, FALSE)),
                    path_length_constraints |->
                        IF resolve_first
                        THEN [path_length_constraints EXCEPT ![agent_to_update + 1] =
                                  Max(@, t.time_step)]
                        ELSE path_length_constraints]

\* the solvers whose arm of the match runs the focal search: the arm of
\* "lbcbs" | "bcbs" | "ecbs" | "decbs", and the arm of "acbs"
acbs_low_level_search == {"acbs"}

\* the match on the solver in HighLevelOpenNode::new and update_constraint
low_level_search(agent, constraints, L, paths) ==
    CASE config.solver \in {"cbs", "hbcbs"} ->
            a_star_search(agent, constraints, L, config.op_prioritize_conflicts)
      [] config.solver \in {"lbcbs", "bcbs", "ecbs", "decbs"} \cup acbs_low_level_search ->
            focal_a_star_search(agent, config.sub_optimal[2], constraints, L, paths,
                                config.op_prioritize_conflicts, config.solver)

\* HighLevelOpenNode::new, agent by agent: acc holds the paths, f_min values
\* and MDDs of the agents already planned, r is the low-level result of `agent`
RECURSIVE new_from(_, _)
new_with(agent, acc, r) ==
    IF r.status # "found" THEN [status |-> r.status, node |-> << >>]
    ELSE new_from(agent + 1,
             [paths |-> Append(acc.paths, r.path),
              low_level_f_min_agents |-> Append(acc.low_level_f_min_agents, r.f_min),
              mdds |-> Append(acc.mdds, r.mdd),
              total_cost |-> acc.total_cost + Len(r.path) - 1])

new_from(agent, acc) ==
    IF agent >= Len(agents)
    THEN [status |-> "found",
          node |-> HighLevelOpenNode([a \in 1..Len(agents) |-> {}],
                                     [a \in 1..Len(agents) |-> 0],
                                     detect_conflicts(acc.paths, acc.mdds,
                                                      config.op_target_reasoning),
                                     acc.paths, acc.total_cost,
                                     acc.low_level_f_min_agents, acc.mdds)]
    ELSE new_with(agent, acc, low_level_search(agent, {}, 0, acc.paths))

new ==
    new_from(0, [paths |-> << >>, low_level_f_min_agents |-> << >>, mdds |-> << >>,
                 total_cost |-> 0])

\* the end of update_constraint: r is the low-level result of agent_to_update
\* under the constraints `converted`
update_constraint_with(node, agent_to_update, converted, r) ==
    IF r.status # "found" THEN [status |-> r.status, node |-> << >>]
    ELSE LET new_paths == [node.paths EXCEPT ![agent_to_update + 1] = r.path]
             new_mdds == [node.mdds EXCEPT ![agent_to_update + 1] = r.mdd]
         IN [status |-> "found",
             node |-> HighLevelOpenNode(
                 converted.constraints, converted.path_length_constraints,
                 detect_conflicts(new_paths, new_mdds, config.op_target_reasoning),
                 new_paths,
                 node.cost - Len(node.paths[agent_to_update + 1]) + Len(r.path),
                 [node.low_level_f_min_agents EXCEPT ![agent_to_update + 1] = r.f_min],
                 new_mdds)]

\* the low-level call of update_constraint
update_constraint_search(node, agent_to_update, converted) ==
    update_constraint_with(node, agent_to_update, converted,
        low_level_search(agent_to_update,
                         converted.constraints[agent_to_update + 1],
                         converted.path_length_constraints[agent_to_update + 1],
                         node.paths))

update_constraint(node, conflict, resolve_first) ==
    update_constraint_search(node,
        IF resolve_first THEN conflict.agent_1 ELSE conflict.agent_2,
        convert_conflict_to_constraint(conflict, resolve_first,
            config.op_target_reasoning,
            IF resolve_first THEN conflict.agent_1 ELSE conflict.agent_2,
            node.constraints, node.path_length_constraints))

\* the two children of a conflict: update_constraint(conflict, true, ..) and
\* update_constraint(conflict, false, ..)
both(child) == <<child[TRUE], child[FALSE]>>

children(node, conflict) ==
    both([resolve_first \in BOOLEAN |-> update_constraint(node, conflict, resolve_first)])

\* faulty variant: the adopted node keeps the cost of the popped node
update_bypass_node_stale_cost(node, new_node, agent_id) ==
    [node EXCEPT !.paths[agent_id + 1] = new_node.paths[agent_id + 1],
                 !.conflicts = new_node.conflicts,
                 !.mdds[agent_id + 1] = new_node.mdds[agent_id + 1],
                 !.low_level_f_min_agents[agent_id + 1] =
                     new_node.low_level_f_min_agents[agent_id + 1]]

update_bypass_node(node, new_node, agent_id) ==
    [node EXCEPT !.paths[agent_id + 1] = new_node.paths[agent_id + 1],
                 !.conflicts = new_node.conflicts,
                 !.mdds[agent_id + 1] = new_node.mdds[agent_id + 1],
                 !.cost = new_node.cost,
                 !.low_level_f_min_agents[agent_id + 1] =
                     new_node.low_level_f_min_agents[agent_id + 1]]

\* update_bypass_path: src/solver/comm/highlevel.rs
update_bypass_path(node, new_path, new_conflicts, agent_id) ==
    [node EXCEPT !.paths[agent_id + 1] = new_path, !.conflicts = new_conflicts]

----------------------------------------------------------------------------
(* Helpers of the drivers: src/solver.rs and the conflict selection that   *)
(* opens every loop body                                                   *)

\* faulty variant: the paths of the agents are not compared with their bounds
sub_optimal_bypass_cost_only(parent, child, suboptimal_factor) ==
    /\ Len(child.conflicts) < Len(parent.conflicts)
    /\ WithinBound(child.cost, SeqSum(parent.low_level_f_min_agents, 1), suboptimal_factor)

sub_optimal_bypass_comparation(parent, child, suboptimal_factor) ==
    LET lb == SeqSum(parent.low_level_f_min_agents, 1)
    IN /\ Len(child.conflicts) < Len(parent.conflicts)
       /\ WithinBound(child.cost, lb, suboptimal_factor)
       /\ \A agent \in 1..Len(agents) :
            WithinBound(Len(child.paths[agent]) - 1,
                        parent.low_level_f_min_agents[agent], suboptimal_factor)

\* iter().find(|c| c.cardinal_type == ty): index of the first match, 0 if none
RECURSIVE find_cardinal_type(_, _, _)
find_cardinal_type(conflicts, ty, i) ==
    IF i > Len(conflicts) THEN 0
    ELSE IF conflicts[i].cardinal_type = ty THEN i
    ELSE find_cardinal_type(conflicts, ty, i + 1)

\* the conflict a driver resolves (index into node.conflicts, 0 if none);
\* faulty variant: the first conflict of the list, whatever its class
select_conflict_first(conflicts, fallback) == IF Len(conflicts) > 0 THEN 1 ELSE 0

\* `fallback` is the last alternative of the or_else chain
select_conflict(conflicts, fallback) ==
    IF ~config.op_prioritize_conflicts THEN (IF Len(conflicts) > 0 THEN 1 ELSE 0)
    ELSE IF find_cardinal_type(conflicts, "Cardinal", 1) > 0
    THEN find_cardinal_type(conflicts, "Cardinal", 1)
    ELSE IF find_cardinal_type(conflicts, "SemiCardinal", 1) > 0
    THEN find_cardinal_type(conflicts, "SemiCardinal", 1)
    ELSE IF find_cardinal_type(conflicts, "NonCardinal", 1) > 0
    THEN find_cardinal_type(conflicts, "NonCardinal", 1)
    ELSE IF fallback = "first" THEN (IF Len(conflicts) > 0 THEN 1 ELSE 0)
    ELSE find_cardinal_type(conflicts, "Unknown", 1)

----------------------------------------------------------------------------
(* The drivers: src/solver/*.rs.  One iteration of a driver's loop maps    *)
(* the lists to an outcome [open, focal, closed, pc, solution]; pc is      *)
(* "loop" while the loop goes on, "solved" when a solution is returned,    *)
(* "nosolution" when solve returns None, "panic" when an unwrap or an      *)
(* assertion fails, "diverge" when a low-level call was not followed to    *)
(* its end, "overflow" when a low-level call added past usize::MAX.        *)

Outcome(o, f, c, p, s) == [open |-> o, focal |-> f, closed |-> c, pc |-> p, solution |-> s]

Aborted(r) == r.status \in {"panic", "diverge", "overflow"}
Abort(status) == Outcome(open, focal, closed, status, << >>)
ReturnNone == Outcome(open, focal, closed, "nosolution", << >>)
\* return Some(Solution): o, f and c are the lists after the pop
ReturnSolution(o, f, c, node) == Outcome(o, f, c, "solved", node)

w_high == config.sub_optimal[1]
w_low == config.sub_optimal[2]

\* the insertion of the root r into the lists
insert_root(r) ==
    IF Aborted(r) THEN Abort(r.status)
    ELSE IF r.status = "none" THEN ReturnNone
    ELSE IF config.solver \in {"cbs", "lbcbs"}
    THEN Outcome({r.node}, {}, {}, "loop", << >>)
    ELSE IF config.solver = "ecbs"
    THEN Outcome({r.node}, r.node :> 1, {}, "loop", << >>)
    ELSE Outcome({r.node}, {to_focal_node(r.node)}, {}, "loop", << >>)

\* HighLevelOpenNode::new and the insertion of the root
root_outcome == insert_root(new)

\* focal.insert(node.to_focal_node()) for every node of `nodes`
HLFocalInsertAll(S, nodes) ==
    S \cup {to_focal_node(n) : n \in {m \in nodes : \A k \in S : ~HLFocalEq(k, to_focal_node(m))}}

\* faulty variant: every node of the open list is promoted
maintain_high_level_focal_all(open_list, focal_list, old_f_min, new_f_min, w) ==
    HLFocalInsertAll(focal_list, open_list)

\* "Maintain the focal list": the nodes of the open list whose cost lies in
\* (old_f_min * w, new_f_min * w] enter the focal list
maintain_high_level_focal(open_list, focal_list, old_f_min, new_f_min, w) ==
    IF old_f_min < new_f_min
    THEN HLFocalInsertAll(focal_list,
             {node \in open_list : /\ ~WithinBound(node.cost, old_f_min, w)
                                   /\ WithinBound(node.cost, new_f_min, w)})
    ELSE focal_list

\* LBCBS: src/solver/lbcbs.rs.  The loop body once the conflict is chosen;
\* popped is the open list after pop_first, child the two children.
lbcbs_expand(current_node, popped, conflict, child) ==
    LET child_1 == child[1]
        child_2 == child[2]
        bypass_1 == /\ config.op_bypass_conflicts
                    /\ child_1.status = "found"
                    /\ sub_optimal_bypass_comparation(current_node, child_1.node, w_low)
        bypass_2 == /\ config.op_bypass_conflicts
                    /\ child_2.status = "found"
                    /\ sub_optimal_bypass_comparation(current_node, child_2.node, w_low)
        open_1 == IF bypass_1
                  THEN HLOpenInsert(popped,
                           update_bypass_node(current_node, child_1.node, conflict.agent_1))
                  ELSE popped
        open_2 == IF bypass_2
                  THEN HLOpenInsert(open_1,
                           update_bypass_node(current_node, child_2.node, conflict.agent_2))
                  ELSE open_1
        open_3 == IF child_1.status = "found" THEN HLOpenInsert(popped, child_1.node)
                  ELSE popped
        open_4 == IF child_2.status = "found" THEN HLOpenInsert(open_3, child_2.node)
                  ELSE open_3
    IN IF Aborted(child_1) THEN Abort(child_1.status)
       ELSE IF Aborted(child_2) THEN Abort(child_2.status)
       ELSE IF bypass_1 \/ bypass_2 THEN Outcome(open_2, focal, closed, "loop", << >>)
       ELSE Outcome(open_4, focal, closed, "loop", << >>)

\* the loop body from the pop of current_node on; ci is the chosen conflict
lbcbs_body(current_node, ci) ==
    IF ci = 0
    THEN ReturnSolution(HLOpenRemove(open, current_node), focal, closed, current_node)
    ELSE lbcbs_expand(current_node, HLOpenRemove(open, current_node),
                      current_node.conflicts[ci],
                      children(current_node, current_node.conflicts[ci]))

lbcbs_iteration ==
    IF open = {} THEN ReturnNone
    ELSE lbcbs_body(HLOpenFirst(open),
                    select_conflict(HLOpenFirst(open).conflicts, "unknown"))

\* BCBS: src/solver/bcbs.rs.  The loop body once the node is known to have
\* conflicts; open_0, focal_0 and closed_0 are the lists after the pop.
bcbs_expand(current_open_node, open_0, focal_0, closed_0, child) ==
    LET child_1 == child[1]
        child_2 == child[2]
        old_f_min == current_open_node.cost
        keep_1 == child_1.status = "found" /\ child_1.node \notin closed_0
        keep_2 == child_2.status = "found" /\ child_2.node \notin closed_0
        open_1 == IF keep_1 THEN HLOpenInsert(open_0, child_1.node) ELSE open_0
        focal_1 == IF keep_1 /\ WithinBound(child_1.node.cost, old_f_min, w_high)
                   THEN HLFocalInsert(focal_0, to_focal_node(child_1.node)) ELSE focal_0
        open_2 == IF keep_2 THEN HLOpenInsert(open_1, child_2.node) ELSE open_1
        focal_2 == IF keep_2 /\ WithinBound(child_2.node.cost, old_f_min, w_high)
                   THEN HLFocalInsert(focal_1, to_focal_node(child_2.node)) ELSE focal_1
        focal_3 == IF open_2 = {} THEN focal_2
                   ELSE maintain_high_level_focal(open_2, focal_2, old_f_min,
                                                  HLOpenFirst(open_2).cost, w_high)
    IN IF Aborted(child_1) THEN Abort(child_1.status)
       ELSE IF Aborted(child_2) THEN Abort(child_2.status)
       ELSE Outcome(open_2, focal_3, closed_0, "loop", << >>)

\* the loop body from the pop of current_focal_node on
bcbs_body(current_focal_node, current_open_node) ==
    IF Len(current_open_node.conflicts) = 0
    THEN ReturnSolution(HLOpenRemove(open, current_open_node),
                        HLFocalRemove(focal, current_focal_node),
                        closed \cup {current_open_node}, current_open_node)
    ELSE bcbs_expand(current_open_node, HLOpenRemove(open, current_open_node),
                     HLFocalRemove(focal, current_focal_node),
                     closed \cup {current_open_node},
                     children(current_open_node, current_open_node.conflicts[1]))

bcbs_iteration ==
    IF focal = {} THEN ReturnNone
    ELSE bcbs_body(HLFocalFirst(focal), to_open_node(HLFocalFirst(focal)))

\* HBCBS: src/solver/hbcbs.rs.  The loop body once the node is known to have
\* conflicts; open_0 and focal_0 are the lists after the pop.
hbcbs_expand(current_open_node, open_0, focal_0, old_f_min, conflict, child) ==
    LET child_1 == child[1]
        child_2 == child[2]
        bypass_1 == /\ config.op_bypass_conflicts
                    /\ child_1.status = "found"
                    /\ child_1.node.cost = current_open_node.cost
                    /\ Len(child_1.node.conflicts) < Len(current_open_node.conflicts)
        bypass_2 == /\ config.op_bypass_conflicts
                    /\ child_2.status = "found"
                    /\ child_2.node.cost <= current_open_node.cost
                    /\ Len(child_2.node.conflicts) < Len(current_open_node.conflicts)
        bypassed(c, agent) ==
            Outcome(HLOpenInsert(open_0,
                        update_bypass_path(current_open_node, c.paths[agent + 1],
                                           c.conflicts, agent)),
                    HLFocalInsert(focal_0, to_focal_node(c)), closed, "loop", << >>)
        open_1 == IF child_1.status = "found" THEN HLOpenInsert(open_0, child_1.node)
                  ELSE open_0
        focal_1 == IF child_1.status = "found"
                      /\ WithinBound(child_1.node.cost, old_f_min, w_high)
                   THEN HLFocalInsert(focal_0, to_focal_node(child_1.node)) ELSE focal_0
        open_2 == IF child_2.status = "found" THEN HLOpenInsert(open_1, child_2.node)
                  ELSE open_1
        focal_2 == IF child_2.status = "found"
                      /\ WithinBound(child_2.node.cost, old_f_min, w_high)
                   THEN HLFocalInsert(focal_1, to_focal_node(child_2.node)) ELSE focal_1
        focal_3 == IF open_2 = {} THEN focal_2
                   ELSE maintain_high_level_focal(open_2, focal_2, old_f_min,
                                                  HLOpenFirst(open_2).cost, w_high)
    IN IF Aborted(child_1) THEN Abort(child_1.status)
       ELSE IF bypass_1 THEN bypassed(child_1.node, conflict.agent_1)
       ELSE IF Aborted(child_2) THEN Abort(child_2.status)
       ELSE IF bypass_2 THEN bypassed(child_2.node, conflict.agent_2)
       ELSE Outcome(open_2, focal_3, closed, "loop", << >>)

\* the loop body from the pop of current_focal_node on
hbcbs_body(current_focal_node, current_open_node) ==
    IF Len(current_open_node.conflicts) = 0
    THEN ReturnSolution(HLOpenRemove(open, current_open_node),
                        HLFocalRemove(focal, current_focal_node), closed,
                        current_open_node)
    ELSE hbcbs_expand(current_open_node, HLOpenRemove(open, current_open_node),
                      HLFocalRemove(focal, current_focal_node),
                      HLOpenFirst(open).cost, current_open_node.conflicts[1],
                      children(current_open_node, current_open_node.conflicts[1]))

hbcbs_iteration ==
    IF focal = {} THEN ReturnNone
    ELSE IF open = {} THEN Abort("panic")
    ELSE hbcbs_body(HLFocalFirst(focal), to_open_node(HLFocalFirst(focal)))

\* DECBS and ACBS: src/solver/decbs.rs, src/solver/acbs.rs.  The two loops
\* differ in the last alternative of the conflict selection.  The loop body
\* once the conflict is chosen; open_0 and focal_0 are the lists after the pop.
focal_driver_expand(current_open_node, open_0, focal_0, old_f_min, conflict, child) ==
    LET child_1 == child[1]
        child_2 == child[2]
        bypass_1 == /\ config.op_bypass_conflicts
                    /\ child_1.status = "found"
                    /\ sub_optimal_bypass_comparation(current_open_node, child_1.node, w_low)
        bypass_2 == /\ config.op_bypass_conflicts
                    /\ child_2.status = "found"
                    /\ sub_optimal_bypass_comparation(current_open_node, child_2.node, w_low)
        open_b1 == IF bypass_1
                   THEN HLOpenInsert(open_0,
                            update_bypass_node(current_open_node, child_1.node, conflict.agent_1))
                   ELSE open_0
        focal_b1 == IF bypass_1 THEN HLFocalInsert(focal_0, to_focal_node(child_1.node))
                    ELSE focal_0
        open_b2 == IF bypass_2
                   THEN HLOpenInsert(open_b1,
                            update_bypass_node(current_open_node, child_2.node, conflict.agent_2))
                   ELSE open_b1
        focal_b2 == IF bypass_2 THEN HLFocalInsert(focal_b1, to_focal_node(child_2.node))
                    ELSE focal_b1
        open_1 == IF child_1.status = "found" THEN HLOpenInsert(open_0, child_1.node)
                  ELSE open_0
        focal_1 == IF child_1.status = "found"
                      /\ WithinBound(child_1.node.cost, old_f_min, w_low)
                   THEN HLFocalInsert(focal_0, to_focal_node(child_1.node)) ELSE focal_0
        open_2 == IF child_2.status = "found" THEN HLOpenInsert(open_1, child_2.node)
                  ELSE open_1
        focal_2 == IF child_2.status = "found"
                      /\ WithinBound(child_2.node.cost, old_f_min, w_low)
                   THEN HLFocalInsert(focal_1, to_focal_node(child_2.node)) ELSE focal_1
        focal_3 == IF open_2 = {} THEN focal_2
                   ELSE maintain_high_level_focal(open_2, focal_2, old_f_min,
                            SeqSum(HLOpenFirst(open_2).low_level_f_min_agents, 1), w_low)
    IN IF Aborted(child_1) THEN Abort(child_1.status)
       ELSE IF Aborted(child_2) THEN Abort(child_2.status)
       ELSE IF bypass_1 \/ bypass_2 THEN Outcome(open_b2, focal_b2, closed, "loop", << >>)
       ELSE Outcome(open_2, focal_3, closed, "loop", << >>)

\* the loop body from the pop of current_focal_node on; ci is the chosen conflict
focal_driver_body(current_focal_node, current_open_node, ci) ==
    IF ci = 0
    THEN ReturnSolution(HLOpenRemove(open, current_open_node),
                        HLFocalRemove(focal, current_focal_node), closed,
                        current_open_node)
    ELSE focal_driver_expand(current_open_node, HLOpenRemove(open, current_open_node),
                             HLFocalRemove(focal, current_focal_node),
                             SeqSum(HLOpenFirst(open).low_level_f_min_agents, 1),
                             current_open_node.conflicts[ci],
                             children(current_open_node, current_open_node.conflicts[ci]))

focal_driver_iteration(fallback) ==
    IF focal = {} THEN ReturnNone
    ELSE IF open = {} THEN Abort("panic")
    ELSE focal_driver_body(HLFocalFirst(focal), to_open_node(HLFocalFirst(focal)),
             select_conflict(to_open_node(HLFocalFirst(focal)).conflicts, fallback))

decbs_iteration == focal_driver_iteration("unknown")
acbs_iteration == focal_driver_iteration("first")

\* ECBS: src/solver/ecbs.rs.  The loop keeps `open` as a map from the key
\* (f_min_sum, cost, conflicts_hash) to the node, `focal` as a heap (a bag:
\* node |-> number of copies) and `closed` as a set.  The node type the loop
\* is written against is the node of src/common/highlevel.rs in its "ecbs"
\* arm, built without optimisation flags; the hash tells conflict lists apart.
ecbs_key(node) == <<SeqSum(node.low_level_f_min_agents, 1), node.cost, node.conflicts>>

\* BTreeMap::insert: the value under an equal key is replaced
ecbs_open_insert(open_list, node) ==
    {n \in open_list : ecbs_key(n) # ecbs_key(node)} \cup {node}

\* BTreeMap::remove
ecbs_open_remove(open_list, node) == {n \in open_list : ecbs_key(n) # ecbs_key(node)}

\* BinaryHeap::push
ecbs_focal_push(focal_list, node) ==
    IF node \in DOMAIN focal_list THEN [focal_list EXCEPT ![node] = @ + 1]
    ELSE focal_list @@ (node :> 1)

\* what BinaryHeap::pop leaves behind once `node` is taken
ecbs_focal_remove(focal_list, node) ==
    IF focal_list[node] > 1 THEN [focal_list EXCEPT ![node] = @ - 1]
    ELSE [n \in DOMAIN focal_list \ {node} |-> focal_list[n]]

\* the heap's greatest elements: the focal list is keyed by the number of
\* conflicts, a node with the fewest comes first
ecbs_focal_greatest(focal_list) ==
    {n \in DOMAIN focal_list :
        \A m \in DOMAIN focal_list : Len(n.conflicts) <= Len(m.conflicts)}

\* one `if let Some(child) = current_node.update_constraint(..)` block
ecbs_child(closed_list, f_min, acc, child) ==
    IF acc.abort # "no" THEN acc
    ELSE IF Aborted(child) THEN [acc EXCEPT !.abort = child.status]
    ELSE IF child.status # "found" \/ child.node \in closed_list THEN acc
    ELSE [acc EXCEPT !.open = ecbs_open_insert(@, child.node),
                     !.focal = IF WithinBound(child.node.cost, f_min, w_low)
                               THEN ecbs_focal_push(@, child.node) ELSE @]

\* the body of `for conflict in &current_node.conflicts`: the two blocks
ecbs_conflict(closed_list, f_min, acc, child) ==
    ecbs_child(closed_list, f_min, ecbs_child(closed_list, f_min, acc, child[1]), child[2])

\* for conflict in &current_node.conflicts
RECURSIVE ecbs_children(_, _, _, _, _)
ecbs_children(current_node, closed_list, f_min, acc, i) ==
    IF i > Len(current_node.conflicts) THEN acc
    ELSE ecbs_children(current_node, closed_list, f_min,
             ecbs_conflict(closed_list, f_min, acc,
                           children(current_node, current_node.conflicts[i])),
             i + 1)

\* the f_min_sum of the first key of the map, usize::MAX for an empty map
ecbs_first_f_min(open_list) ==
    IF open_list = {} THEN USIZE_MAX
    ELSE LET sums == {SeqSum(n.low_level_f_min_agents, 1) : n \in open_list}
         IN CHOOSE x \in sums : \A y \in sums : x <= y

\* "Maintain the focal list"
RECURSIVE ecbs_maintain(_, _, _, _)
ecbs_maintain(nodes, focal_list, f_min, new_f_min) ==
    IF nodes = {} THEN focal_list
    ELSE LET node == CHOOSE n \in nodes : TRUE
             f_min_sum == SeqSum(node.low_level_f_min_agents, 1)
         IN ecbs_maintain(nodes \ {node},
                IF ~WithinBound(f_min_sum, f_min, w_low)
                   /\ WithinBound(f_min_sum, new_f_min, w_low)
                THEN ecbs_focal_push(focal_list, node) ELSE focal_list,
                f_min, new_f_min)

\* the end of the loop body: acc holds the lists after the children
ecbs_finish(closed_0, f_min, acc, new_f_min) ==
    IF acc.abort # "no" THEN Abort(acc.abort)
    ELSE Outcome(acc.open,
                 IF acc.open # {} /\ f_min < new_f_min
                 THEN ecbs_maintain(acc.open, acc.focal, f_min, new_f_min)
                 ELSE acc.focal,
                 closed_0, "loop", << >>)

\* the loop body once the node is known to have conflicts
ecbs_expand(closed_0, f_min, acc) ==
    ecbs_finish(closed_0, f_min, acc, ecbs_first_f_min(acc.open))

\* the body of `while let Some(current_node) = focal.pop()`
ecbs_iteration(current_node) ==
    IF Len(current_node.conflicts) = 0
    THEN ReturnSolution(ecbs_open_remove(open, current_node),
                        ecbs_focal_remove(focal, current_node),
                        closed \cup {current_node}, current_node)
    ELSE ecbs_expand(closed \cup {current_node},
                     SeqSum(current_node.low_level_f_min_agents, 1),
                     ecbs_children(current_node, closed \cup {current_node},
                         SeqSum(current_node.low_level_f_min_agents, 1),
                         [open |-> ecbs_open_remove(open, current_node),
                          focal |-> ecbs_focal_remove(focal, current_node),
                          abort |-> "no"], 1))

\* CBS: src/solver/cbs.rs.  The body of `for conflict in &current_node.conflicts`;
\* acc carries the loop's variables, acc.stop a break, acc.abort a low-level
\* call that did not return; << >> is None.
cbs_adopt(acc, node) ==
    [acc EXCEPT !.find_adopting = TRUE, !.adopting_node = node,
                !.stop = ~config.op_prioritize_conflicts]

\* left and right are child_candidate_left and child_candidate_right
cbs_candidates(current_node, acc, left, right) ==
    LET cardinal == <<left.node.cost > current_node.cost, right.node.cost > current_node.cost>>
        recorded == [acc EXCEPT !.child_left = left.node, !.child_right = right.node,
                                !.has_children = TRUE]
        fewer(child) == Len(child.node.conflicts) < Len(current_node.conflicts)
        plain == ~config.op_prioritize_conflicts /\ ~config.op_bypass_conflicts
        adopting == config.op_bypass_conflicts /\ ~acc.find_adopting
    IN IF Aborted(left) THEN [acc EXCEPT !.abort = left.status]
       ELSE IF left.status = "none" THEN acc
       ELSE IF Aborted(right) THEN [acc EXCEPT !.abort = right.status]
       ELSE IF right.status = "none" THEN acc
       ELSE IF cardinal[1] /\ cardinal[2]
       THEN [recorded EXCEPT !.find_cardinal = TRUE, !.stop = TRUE]
       ELSE IF cardinal[1] \/ cardinal[2]
       THEN LET semi == [recorded EXCEPT !.find_semi_cardinal = TRUE]
            IN IF plain THEN [semi EXCEPT !.stop = TRUE]
               ELSE IF adopting /\ cardinal[1] /\ fewer(right) THEN cbs_adopt(semi, right.node)
               ELSE IF adopting /\ cardinal[2] /\ fewer(left) THEN cbs_adopt(semi, left.node)
               ELSE semi
       ELSE IF acc.find_semi_cardinal THEN acc
       ELSE IF plain THEN [recorded EXCEPT !.stop = TRUE]
       ELSE IF adopting /\ fewer(right) THEN cbs_adopt(recorded, right.node)
       ELSE IF adopting /\ fewer(left) THEN cbs_adopt(recorded, left.node)
       ELSE recorded

cbs_conflict(current_node, acc, child) ==
    cbs_candidates(current_node, acc, child[1], child[2])

RECURSIVE cbs_conflicts(_, _, _)
cbs_conflicts(current_node, acc, i) ==
    IF i > Len(current_node.conflicts) \/ acc.stop \/ acc.abort # "" THEN acc
    ELSE cbs_conflicts(current_node,
             cbs_conflict(current_node, acc,
                          children(current_node, current_node.conflicts[i])),
             i + 1)

\* faulty variant: a child found for adoption is inserted even when a
\* cardinal conflict was found after it
cbs_insert_adopting_first(popped, acc) ==
    IF acc.abort # "" THEN Abort(acc.abort)
    ELSE IF config.op_bypass_conflicts /\ acc.find_adopting
    THEN Outcome(HLOpenInsert(popped, acc.adopting_node), focal, closed, "loop", << >>)
    ELSE IF ~acc.has_children THEN Abort("panic")
    ELSE Outcome(HLOpenInsert(HLOpenInsert(popped, acc.child_left), acc.child_right),
                 focal, closed, "loop", << >>)

\* the insertions after the loop over the conflicts
cbs_insert(popped, acc) ==
    IF acc.abort # "" THEN Abort(acc.abort)
    ELSE IF acc.find_cardinal
    THEN Outcome(HLOpenInsert(HLOpenInsert(popped, acc.child_left), acc.child_right),
                 focal, closed, "loop", << >>)
    ELSE IF config.op_bypass_conflicts /\ acc.find_adopting
    THEN Outcome(HLOpenInsert(popped, acc.adopting_node), focal, closed, "loop", << >>)
    ELSE IF ~acc.has_children THEN Abort("panic")
    ELSE Outcome(HLOpenInsert(HLOpenInsert(popped, acc.child_left), acc.child_right),
                 focal, closed, "loop", << >>)

\* the loop body from the pop of current_node on
cbs_body(current_node) ==
    IF Len(current_node.conflicts) = 0
    THEN ReturnSolution(HLOpenRemove(open, current_node), focal, closed, current_node)
    ELSE cbs_insert(HLOpenRemove(open, current_node),
             cbs_conflicts(current_node,
                 [find_cardinal |-> FALSE, find_semi_cardinal |-> FALSE,
                  find_adopting |-> FALSE, child_left |-> << >>, child_right |-> << >>,
                  adopting_node |-> << >>, has_children |-> FALSE,
                  stop |-> FALSE, abort |-> ""], 1))

cbs_iteration ==
    IF open = {} THEN ReturnNone
    ELSE cbs_body(HLOpenFirst(open))

\* Solution::verify: src/common.rs
verify(paths) ==
    IF Len(paths) = 0 THEN TRUE
    ELSE IF Len(paths) # Len(agents) THEN FALSE
    ELSE
    LET max_path_length == SetMax({Len(paths[i]) : i \in 1..Len(paths)})
        moves(i, time_step) ==
            /\ time_step >= 1
            /\ time_step < Len(paths[i])
            /\ paths[i][time_step] # paths[i][time_step + 1]
    IN /\ \A i \in 1..Len(paths) :
            /\ Len(paths[i]) > 0
            /\ paths[i][1] = agents[i].start
            /\ paths[i][Len(paths[i])] = agents[i].goal
            /\ \A k \in 1..(Len(paths[i]) - 1) : are_neighbors(paths[i][k], paths[i][k + 1])
       /\ \A time_step \in 0..(max_path_length - 1) :
            /\ \A i \in 1..Len(paths) : PathAt(paths[i], time_step) \in grid
            /\ \A i \in 1..Len(paths) : \A j \in 1..Len(paths) :
                 i < j =>
                   /\ PathAt(paths[i], time_step) # PathAt(paths[j], time_step)
                   /\ (moves(i, time_step) /\ moves(j, time_step)) =>
                        LET edge_i == <<paths[i][time_step], paths[i][time_step + 1]>>
                            edge_j == <<paths[j][time_step], paths[j][time_step + 1]>>
                        IN edge_j # edge_i /\ <<edge_j[2], edge_j[1]>> # edge_i

----------------------------------------------------------------------------
(* Instances *)

\* the 2 x 3 open grid
Grid2x3 == {<<r, c>> : r \in {0, 1}, c \in {0, 1, 2}}

Agent(start, goal) == [start |-> start, goal |-> goal]

Heuristics(g, ags) == [i \in 1..Len(ags) |-> heuristic_dji(g, ags[i].goal)]

\* suboptimality factors 1, 3/2 and 2
Factors == {<<1, 1>>, <<3, 2>>, <<2, 1>>}

NoConfig == [solver |-> "none"]

----------------------------------------------------------------------------
(* Specification of one low-level search call.  ll.entry is the function   *)
(* that was called, ll.kind the loop that is running, ll.q its arguments,  *)
(* ll.s its loop state, ll.steps the number of iterations taken.           *)

\* latest time step of the constraints a call is given
MaxConstraintTime == 2
\* largest path_length_constraint a call is given
MaxPathLengthConstraint == 2
LLAgents == {Agent(<<0, 0>>, <<0, 1>>), Agent(<<0, 0>>, <<0, 2>>), Agent(<<1, 1>>, <<0, 0>>)}

\* cells the constraints of a call are about
LLCells == {<<0, 0>>, <<0, 1>>, <<1, 1>>}

LLConstraints ==
    {VertexC(p, t, b) : p \in LLCells, t \in 1..MaxConstraintTime, b \in BOOLEAN}
    \cup {EdgeC(p, n, t) : p \in {<<0, 0>>}, n \in {<<0, 1>>, <<1, 0>>},
                           t \in 1..MaxConstraintTime}

\* a call is given no constraint, one, or two
LLConstraintSets == {{}} \cup {{c1, c2} : c1 \in LLConstraints, c2 \in LLConstraints}

\* paths of the other agent (id 1) the focal heuristic counts conflicts with
LLOtherPaths == { << <<0, 2>>, <<0, 1>>, <<0, 0>> >>, << <<1, 1>>, <<0, 1>> >> }

LLEntries == {"a_star", "standard_focal", "double", "alternating"}

FirstKind(entry) ==
    CASE entry = "a_star" -> "open_cost"
      [] entry = "double" -> "open_cost"
      [] entry = "standard_focal" -> "standard_focal"
      [] entry = "alternating" -> "alternating_focal"

HighLevelIdle ==
    /\ config = NoConfig
    /\ open = {}
    /\ focal = {}
    /\ closed = {}
    /\ pc = "lowlevel"
    /\ solution = << >>
    /\ iterations = 0

InitLL ==
    /\ grid = Grid2x3
    /\ \E a \in LLAgents :
         /\ agents = <<a>>
         /\ heuristic = Heuristics(Grid2x3, <<a>>)
    /\ HighLevelIdle
    /\ \E entry \in LLEntries, C \in LLConstraintSets,
          L \in 0..MaxPathLengthConstraint, w \in Factors, other \in LLOtherPaths :
         /\ entry = "a_star" => (w = <<1, 1>> /\ other = << <<1, 1>>, <<0, 1>> >>)
         /\ ll = [entry |-> entry, kind |-> FirstKind(entry),
                  q |-> Query(0, C, L, << << >>, other >>, w),
                  s |-> << >>, steps |-> 0, first_f_min |-> 0]

\* the search function is entered: its lists are set up
LLEnter ==
    /\ ll.s = << >>
    /\ ll' = [ll EXCEPT !.s = SearchInit(ll.kind, ll.q)]
    /\ UNCHANGED <<grid, agents, heuristic, config, open, focal, closed, pc, solution, iterations>>

LLIterate(kind) ==
    /\ ll.s # << >>
    /\ ll.kind = kind
    /\ ll.s.status = "running"
    /\ ll.steps < MaxExpansions
    /\ ll' = [ll EXCEPT !.s = SearchStep(kind, ll.q, ll.s), !.steps = @ + 1]
    /\ UNCHANGED <<grid, agents, heuristic, config, open, focal, closed, pc, solution, iterations>>

LLOpenCostIterate == LLIterate("open_cost")
LLFocalCostIterate == LLIterate("focal_cost")
LLStandardFocalIterate == LLIterate("standard_focal")
LLAlternatingFocalIterate == LLIterate("alternating_focal")

\* standard_focal_double_search: the first pass returned, the second starts
LLSecondPass ==
    /\ ll.s # << >>
    /\ ll.entry = "double"
    /\ ll.kind = "open_cost"
    /\ ll.s.status = "found"
    /\ LET q2 == SecondPassQuery(ll.q, ll.s.f_ret)
       IN ll' = [ll EXCEPT !.kind = "focal_cost", !.q = q2,
                           !.s = FocalCostInit(q2), !.first_f_min = ll.s.f_ret]
    /\ UNCHANGED <<grid, agents, heuristic, config, open, focal, closed, pc, solution, iterations>>

NextLL ==
    \/ LLEnter
    \/ LLOpenCostIterate
    \/ LLFocalCostIterate
    \/ LLStandardFocalIterate
    \/ LLAlternatingFocalIterate
    \/ LLSecondPass

SpecLL == InitLL /\ [][NextLL]_vars

\* the call has returned
LLReturned ==
    /\ ll.s # << >>
    /\ ll.s.status \in {"found", "none"}
    /\ ~(ll.entry = "double" /\ ll.kind = "open_cost" /\ ll.s.status = "found")

----------------------------------------------------------------------------
(* Properties of the low-level searches *)

NoPath == 0 - 1

\* a constraint forbids arriving at `to` from `from` at time t
Forbids(c, from, to, t) ==
    \/ /\ c.kind = "Vertex"
       /\ c.position = to
       /\ IF c.is_permanent THEN t >= c.time_step ELSE t = c.time_step
    \/ /\ c.kind = "Edge"
       /\ c.from_position = from /\ c.to_position = to /\ c.to_time_step = t

\* cells of the fully time-expanded graph reachable at time t + 1 from `layer` at t
ReachNext(C, layer, t) ==
    {n \in grid : \E p \in layer :
        /\ are_neighbors(p, n)
        /\ \A c \in C : ~Forbids(c, p, n, t + 1)}

RECURSIVE MinCostFrom(_, _, _, _)
MinCostFrom(q, layer, t, horizon) ==
    IF t > q.path_length_constraint /\ goal_of(q) \in layer THEN t
    ELSE IF t >= horizon THEN NoPath
    ELSE MinCostFrom(q, ReachNext(q.constraints, layer, t), t + 1, horizon)

\* least cost of a path of the time-expanded graph that satisfies the
\* constraints and ends at the goal after more than path_length_constraint
\* moves.  Past the last constraint time the layers only grow, so they are
\* stationary |grid| steps later.
MinCost(q) ==
    MinCostFrom(q, {start_of(q)}, 0,
                Max(q.path_length_constraint, q.constraint_limit_time_step)
                   + Cardinality(grid) + 1)

ValidPath(q, path) ==
    /\ Len(path) >= 1
    /\ path[1] = start_of(q)
    /\ path[Len(path)] = goal_of(q)
    /\ \A i \in 1..(Len(path) - 1) :
         /\ path[i + 1] \in grid
         /\ are_neighbors(path[i], path[i + 1])
         /\ \A c \in q.constraints : ~Forbids(c, path[i], path[i + 1], i)
    /\ Len(path) - 1 > q.path_length_constraint

C8_OpenCostIsMinimumWithinHorizon ==
    (/\ ll.entry = "a_star" /\ LLReturned
     /\ ll.q.path_length_constraint <= ll.q.constraint_limit_time_step) =>
        IF ll.s.status = "found"
        THEN /\ ll.s.f_ret = Len(ll.s.path) - 1
             /\ ll.s.f_ret = MinCost(ll.q)
        ELSE MinCost(ll.q) = NoPath

\* C9: every path a low-level search returns starts at the agent's start,
\* ends at its goal, moves between equal or 4-adjacent passable cells,
\* violates no constraint (permanent ones included) and has more than L moves.
C9_ReturnedPathIsValid ==
    (LLReturned /\ ll.s.status = "found") => ValidPath(ll.q, ll.s.path)

C9_Witness ==
    /\ LLReturned /\ ll.s.status = "found"
    /\ \E c \in ll.q.constraints : c.kind = "Vertex" /\ c.is_permanent
    /\ ll.q.path_length_constraint > 0
    /\ Len(ll.s.path) - 1 > heuristic[1][start_of(ll.q)]

\* C10: every focal search that returns (path, f_min) under factor w has
\* len(path) - 1 <= f_min * w.
C10_FocalResultWithinBound ==
    (ll.entry \in {"standard_focal", "double", "alternating"}
        /\ LLReturned /\ ll.s.status = "found") =>
        (Len(ll.s.path) - 1) * ll.q.w[2] <= ll.s.f_ret * ll.q.w[1]

C10_Witness ==
    /\ ll.entry \in {"standard_focal", "alternating"}
    /\ LLReturned /\ ll.s.status = "found"
    /\ Len(ll.s.path) - 1 > ll.s.f_ret

----------------------------------------------------------------------------
(* Specification of one run of a solver on one instance under one          *)
(* configuration: the root is built, then the driver's loop runs an        *)
(* iteration at a time until solve returns.                                *)

\* largest number of loop iterations of a driver that are followed
MaxIterations == 24
\* the ECBS loop branches on the ties of its heap: its runs are followed for
\* this many pops
MaxPops == 9

Config(solver, prioritize, bypass, target, high, low) ==
    [solver |-> solver, op_prioritize_conflicts |-> prioritize,
     op_bypass_conflicts |-> bypass, op_target_reasoning |-> target,
     sub_optimal |-> <<high, low>>]

\* instances on the 2 x 3 open grid
Instances ==
    { << Agent(<<0, 1>>, <<1, 2>>), Agent(<<0, 2>>, <<1, 0>>), Agent(<<0, 0>>, <<1, 1>>) >>,
      << Agent(<<1, 2>>, <<0, 0>>), Agent(<<0, 0>>, <<1, 2>>), Agent(<<0, 2>>, <<1, 1>>) >>,
      << Agent(<<0, 2>>, <<1, 0>>), Agent(<<0, 1>>, <<1, 2>>), Agent(<<0, 0>>, <<1, 1>>) >>,
      << Agent(<<0, 2>>, <<1, 0>>), Agent(<<1, 1>>, <<0, 0>>) >>,
      << Agent(<<0, 1>>, <<1, 2>>), Agent(<<0, 2>>, <<0, 0>>) >>,
      << Agent(<<1, 0>>, <<1, 1>>), Agent(<<0, 2>>, <<0, 0>>), Agent(<<1, 1>>, <<1, 0>>) >>,
      << Agent(<<0, 2>>, <<1, 2>>), Agent(<<1, 2>>, <<0, 1>>), Agent(<<0, 1>>, <<1, 1>>) >> }

Unset == <<0, 1>>

Configs ==
    {Config("cbs", p, b, t, Unset, Unset) : p \in BOOLEAN, b \in BOOLEAN, t \in BOOLEAN}
    \cup {Config("lbcbs", p, b, t, Unset, w) : p \in BOOLEAN, b \in BOOLEAN, t \in BOOLEAN,
                                              w \in Factors}
    \cup {Config("hbcbs", p, b, t, w, Unset) : p \in BOOLEAN, b \in BOOLEAN, t \in BOOLEAN,
                                              w \in Factors}
    \cup {Config("bcbs", FALSE, FALSE, FALSE, wh, wl) : wh \in Factors, wl \in Factors}
    \cup {Config("ecbs", FALSE, FALSE, FALSE, Unset, w) : w \in Factors}
    \cup {Config(s, p, b, t, Unset, w) : s \in {"decbs", "acbs"}, p \in BOOLEAN,
                                        b \in BOOLEAN, t \in BOOLEAN, w \in Factors}

LowLevelIdle == [entry |-> "none"]

\* an instance whose CT nodes spread over three costs, run by ACBS with
\* bypass under the factor 11/8
SpreadInstance ==
    << Agent(<<0, 1>>, <<1, 1>>), Agent(<<1, 0>>, <<1, 2>>), Agent(<<1, 1>>, <<1, 0>>) >>

SpreadConfig == Config("acbs", FALSE, TRUE, FALSE, Unset, <<11, 8>>)

\* an instance in which two agents cross the goal of a third after it has
\* arrived, run by CBS with target reasoning
CrossingInstance ==
    << Agent(<<0, 1>>, <<0, 0>>), Agent(<<1, 0>>, <<0, 1>>), Agent(<<0, 2>>, <<1, 0>>) >>

CrossingConfig == Config("cbs", FALSE, FALSE, TRUE, Unset, Unset)

ExtraRuns ==
    { [instance |-> SpreadInstance, config |-> SpreadConfig],
      [instance |-> CrossingInstance, config |-> CrossingConfig] }

Init ==
    /\ grid = Grid2x3
    /\ \/ /\ \E instance \in Instances :
               /\ agents = instance
               /\ heuristic = Heuristics(Grid2x3, instance)
          /\ config \in Configs
       \/ \E run \in ExtraRuns :
               /\ agents = run.instance
               /\ heuristic = Heuristics(Grid2x3, run.instance)
               /\ config = run.config
    /\ ll = LowLevelIdle
    /\ open = {}
    /\ focal = {}
    /\ closed = {}
    /\ pc = "root"
    /\ solution = << >>
    /\ iterations = 0

Apply(outcome) ==
    /\ open' = outcome.open
    /\ focal' = outcome.focal
    /\ closed' = outcome.closed
    /\ pc' = outcome.pc
    /\ solution' = outcome.solution
    /\ iterations' = iterations + 1
    /\ UNCHANGED <<grid, agents, heuristic, config, ll>>

Root ==
    /\ pc = "root"
    /\ Apply(root_outcome)

Iterate(solver) ==
    /\ pc = "loop"
    /\ config.solver = solver
    /\ iterations < MaxIterations

CBSIterate == Iterate("cbs") /\ Apply(cbs_iteration)
LBCBSIterate == Iterate("lbcbs") /\ Apply(lbcbs_iteration)
HBCBSIterate == Iterate("hbcbs") /\ Apply(hbcbs_iteration)
BCBSIterate == Iterate("bcbs") /\ Apply(bcbs_iteration)
\* focal.pop() takes one of the heap's greatest elements
ECBSIterate ==
    /\ Iterate("ecbs")
    /\ iterations < MaxPops
    /\ IF DOMAIN focal = {} THEN Apply(ReturnNone)
       ELSE \E current_node \in ecbs_focal_greatest(focal) :
                Apply(ecbs_iteration(current_node))

DECBSIterate == Iterate("decbs") /\ Apply(decbs_iteration)
ACBSIterate == Iterate("acbs") /\ Apply(acbs_iteration)

Next ==
    \/ Root
    \/ CBSIterate
    \/ LBCBSIterate
    \/ HBCBSIterate
    \/ BCBSIterate
    \/ ECBSIterate
    \/ DECBSIterate
    \/ ACBSIterate

Spec == Init /\ [][Next]_vars

----------------------------------------------------------------------------
(* Properties of the solvers.  The reference values are computed by        *)
(* exhaustive search over joint plans: all agents move at once, a step     *)
(* costs one unit for every agent that has not yet settled on its goal,    *)
(* a settled agent stays on its goal for ever.                             *)

\* largest sum of costs a joint plan is searched for
MaxSumOfCosts == 12

RECURSIVE SumOfCosts(_, _)
SumOfCosts(paths, i) ==
    IF i > Len(paths) THEN 0 ELSE (Len(paths[i]) - 1) + SumOfCosts(paths, i + 1)

\* a lower bound on what the agents outside `settled` still have to pay
RECURSIVE RemainingCost(_, _, _)
RemainingCost(pos, settled, i) ==
    IF i > Len(agents) THEN 0
    ELSE (IF i \in settled THEN 0 ELSE heuristic[i][pos[i]])
         + RemainingCost(pos, settled, i + 1)

\* the joint moves out of state s: every agent that has not settled moves to
\* a neighbouring cell or waits, no two agents meet in a cell or swap cells
PlanMoves(s) ==
    {m \in [1..Len(agents) -> grid] :
        /\ \A i \in 1..Len(agents) :
             IF i \in s.settled THEN m[i] = s.pos[i]
             ELSE m[i] \in SeqRange(get_neighbors(s.pos[i], TRUE))
        /\ \A i \in 1..Len(agents) : \A j \in 1..Len(agents) :
             i < j => /\ m[i] # m[j]
                      /\ ~(m[i] = s.pos[j] /\ m[j] = s.pos[i])}

\* the states one step after s that can still finish within the budget; an
\* agent standing on its goal after the step may settle there
PlanStep(s, budget) ==
    LET cost == s.cost + (Len(agents) - Cardinality(s.settled))
        settle(m) == {i \in (1..Len(agents)) \ s.settled : m[i] = agents[i].goal}
        reached == UNION {{[pos |-> m, settled |-> s.settled \cup extra, cost |-> cost] :
                              extra \in SUBSET settle(m)} : m \in PlanMoves(s)}
    IN {t \in reached : t.cost + RemainingCost(t.pos, t.settled, 1) <= budget}

RECURSIVE PlanSearch(_, _)
PlanSearch(layer, budget) ==
    IF \E s \in layer : s.settled = 1..Len(agents) THEN TRUE
    ELSE IF layer = {} THEN FALSE
    ELSE PlanSearch(UNION {PlanStep(s, budget) : s \in layer}, budget)

\* some conflict-free joint plan has a sum of costs of at most budget
PlanWithin(budget) ==
    LET start == [pos |-> [i \in 1..Len(agents) |-> agents[i].start], settled |-> {},
                  cost |-> 0]
    IN /\ RemainingCost(start.pos, {}, 1) <= budget
       /\ PlanSearch({start}, budget)

\* the minimum sum of costs over all conflict-free joint plans
RECURSIVE LeastBudget(_)
LeastBudget(budget) ==
    IF budget > MaxSumOfCosts THEN NoPath
    ELSE IF PlanWithin(budget) THEN budget
    ELSE LeastBudget(budget + 1)

OptimalCost == LeastBudget(0)

\* what solve returned
ReturnedPaths == solution.paths
ReturnedCost == SumOfCosts(solution.paths, 1)
Solved(solvers) == pc = "solved" /\ config.solver \in solvers

Adjacent(a, b) ==
    \/ (a[1] = b[1] /\ (a[2] - b[2] = 1 \/ b[2] - a[2] = 1))
    \/ (a[2] = b[2] /\ (a[1] - b[1] = 1 \/ b[1] - a[1] = 1))

Makespan(paths) == SetMax({Len(paths[i]) - 1 : i \in 1..Len(paths)})

ValidSolution(paths) ==
    /\ Len(paths) = Len(agents)
    /\ \A i \in 1..Len(paths) :
         /\ Len(paths[i]) >= 1
         /\ paths[i][1] = agents[i].start
         /\ paths[i][Len(paths[i])] = agents[i].goal
         /\ \A k \in 1..Len(paths[i]) : paths[i][k] \in grid
         /\ \A k \in 1..(Len(paths[i]) - 1) :
              paths[i][k] = paths[i][k + 1] \/ Adjacent(paths[i][k], paths[i][k + 1])
    /\ \A i \in 1..Len(paths) : \A j \in 1..Len(paths) :
         i < j => \A t \in 0..Makespan(paths) :
                    /\ PathAt(paths[i], t) # PathAt(paths[j], t)
                    /\ t >= 1 => ~(/\ PathAt(paths[i], t) = PathAt(paths[j], t - 1)
                                   /\ PathAt(paths[j], t) = PathAt(paths[i], t - 1))

\* C1: whenever a solver returns a solution, every path leads its agent from
\* its start to its goal by steps to the same or a 4-adjacent passable cell,
\* and at no time step up to the makespan (shorter paths padded with their
\* last cell) do two agents share a cell or swap along an edge.
C1_ReturnedSolutionIsValid ==
    pc = "solved" => (ValidSolution(ReturnedPaths) /\ verify(ReturnedPaths))

\* a solution returned for three agents after the root and at least two
\* expansions
C1_Witness ==
    /\ pc = "solved"
    /\ Len(agents) = 3
    /\ iterations >= 4
    /\ config.op_bypass_conflicts
    /\ config.op_target_reasoning

\* C2: a solution returned by CBS, under any combination of the three
\* flags, has the minimum sum of costs over all conflict-free joint plans.
C2_CBSIsOptimal == Solved({"cbs"}) => ReturnedCost = OptimalCost

\* C2 with the bypass flag off: the solutions CBS returns are optimal.
C2_CBSIsOptimalWithoutBypass ==
    (Solved({"cbs"}) /\ ~config.op_bypass_conflicts) => ReturnedCost = OptimalCost

\* C3: a solution returned by ECBS, DECBS or ACBS costs at most w_low times
\* the optimal sum of costs.
C3_FocalDriversWithinLowFactor ==
    Solved({"ecbs", "decbs", "acbs"}) => ReturnedCost * w_low[2] <= OptimalCost * w_low[1]

\* C3 for DECBS and ACBS with the bypass flag off.
C3_FocalDriversWithinLowFactorWithoutBypass ==
    (Solved({"decbs", "acbs"}) /\ ~config.op_bypass_conflicts)
        => ReturnedCost * w_low[2] <= OptimalCost * w_low[1]

\* C4: a solution returned by HBCBS, bypass on or off, costs at most w_high
\* times the optimal sum of costs.
C4_HBCBSWithinHighFactor ==
    Solved({"hbcbs"}) => ReturnedCost * w_high[2] <= OptimalCost * w_high[1]

\* C4 with the bypass flag off.
C4_HBCBSWithinHighFactorWithoutBypass ==
    (Solved({"hbcbs"}) /\ ~config.op_bypass_conflicts)
        => ReturnedCost * w_high[2] <= OptimalCost * w_high[1]

\* C5: a solution returned by LBCBS has the optimal sum of costs.
C5_LBCBSIsOptimal == Solved({"lbcbs"}) => ReturnedCost = OptimalCost

\* C5, amended: a solution returned by LBCBS costs at most w_low times the
\* optimal sum of costs.
C5_LBCBSWithinLowFactor ==
    Solved({"lbcbs"}) => ReturnedCost * w_low[2] <= OptimalCost * w_low[1]

\* LBCBS returns a solution that is not optimal
C5_Witness == Solved({"lbcbs"}) /\ ReturnedCost > OptimalCost

NodeWithinLowFactor(node) ==
    /\ \A i \in 1..Len(agents) :
         (Len(node.paths[i]) - 1) * w_low[2] <= node.low_level_f_min_agents[i] * w_low[1]
    /\ node.cost * w_low[2] <= SeqSum(node.low_level_f_min_agents, 1) * w_low[1]

\* the CT nodes of the lists; the focal list of ECBS is a bag
Frontier ==
    IF config.solver = "ecbs" /\ pc # "root" THEN open \cup DOMAIN focal
    ELSE open \cup focal

\* C7: in LBCBS, ECBS, DECBS and ACBS every CT node in the frontier (root,
\* constraint child, bypass-adopted node) and the node whose paths are
\* returned keep len(path_i) - 1 <= w_low * f_min_i for every agent i and
\* cost <= w_low * (sum of the f_min_i).
C7_FrontierNodesWithinLowFactor ==
    config.solver \in {"lbcbs", "ecbs", "decbs", "acbs"} =>
        /\ \A node \in Frontier : NodeWithinLowFactor(node)
        /\ pc = "solved" => NodeWithinLowFactor(solution)

\* a bypass-adopted node is in the frontier of a run with w_low > 1: the open
\* list holds a node with a child's paths and conflicts under its parent's
\* constraints, and one of its paths is longer than its agent's f_min
C7_Witness ==
    /\ config.solver \in {"decbs", "acbs"}
    /\ config.op_bypass_conflicts
    /\ w_low # <<1, 1>>
    /\ \E node \in open :
         /\ \E m \in focal : HLOpenEq(node, m) /\ node.constraints # m.constraints
         /\ \E i \in 1..Len(agents) :
              Len(node.paths[i]) - 1 > node.low_level_f_min_agents[i]

----------------------------------------------------------------------------
(* Termination of the low-level searches: the calls of SpecLL whose goal   *)
(* is free, or cut off by a permanent constraint, followed under weak      *)
(* fairness of the search loop                                             *)

TermConstraintSets ==
    {{}, {VertexC(<<0, 0>>, 1, TRUE)}, {VertexC(<<0, 1>>, 1, TRUE)},
     {VertexC(<<0, 0>>, 1, FALSE), VertexC(<<0, 0>>, 2, TRUE)}}

InitTerm ==
    /\ InitLL
    /\ ll.q.constraints \in TermConstraintSets
    /\ ll.q.path_length_constraint = 0

\* an iteration of the running loop, or the second pass of the double
\* search, can be taken
LoopEnabled ==
    /\ ll.s # << >>
    /\ \/ ll.s.status = "running" /\ ll.steps < MaxExpansions
       \/ ll.entry = "double" /\ ll.kind = "open_cost" /\ ll.s.status = "found"

\* an iteration, or the start of the second pass, is taken
LoopStep == ll'.steps # ll.steps \/ ll'.kind # ll.kind

\* weak fairness of the loop, WF_vars(LoopEnabled /\ NextLL), with its enabling
\* condition written out: a loop that can go on does go on
LoopFairness == []<>(~LoopEnabled) \/ []<><<LoopStep>>_vars

SpecTerm == InitTerm /\ [][NextLL]_vars /\ WF_vars(LLEnter) /\ LoopFairness

\* the goal of the call cannot be reached under its constraints
GoalCutOff == MinCost(ll.q) = NoPath

C11_SearchesWithFrozenTimeStepReturn ==
    <>(LLReturned \/ ll.entry = "standard_focal")

\* a search of a cut-off goal that has returned has returned nothing
C11_CutOffGoalReturnsNothing ==
    (LLReturned /\ GoalCutOff) => ll.s.status = "none"

----------------------------------------------------------------------------
(* Absent children *)

\* C12: in every driver an absent child is handled without failure: solve
\* ends only by returning the paths of a conflict-free node or nothing, never
\* by unwrapping a missing child or by a panic.
C12_AbsentChildIsHandled == pc # "panic"

\* the same statement for the drivers other than CBS
C12_DriversOtherThanCBSHandleAbsentChild == config.solver # "cbs" => pc # "panic"


----------------------------------------------------------------------------
(* Specification of single calls of the functions of the CT node: ll.entry *)
(* is the function that is called, ll.arg its arguments and ll.result what *)
(* it has returned once pc = "returned".                                   *)

\* the 2 x 3 grid with the cells of its middle column blocked
GridSplit == {<<r, c>> : r \in {0, 1}, c \in {0, 2}}

\* instances on the split grid: the goal of agent 1, of agent 0, of no agent
\* lies across the blocked column
SplitInstances ==
    { << Agent(<<0, 0>>, <<1, 0>>), Agent(<<1, 0>>, <<0, 2>>) >>,
      << Agent(<<0, 2>>, <<1, 0>>), Agent(<<1, 2>>, <<0, 2>>) >>,
      << Agent(<<1, 2>>, <<0, 0>>) >>,
      << Agent(<<0, 0>>, <<1, 0>>), Agent(<<1, 2>>, <<0, 2>>) >> }

Call(entry, arg) == [entry |-> entry, arg |-> arg, result |-> << >>]

CallIdle ==
    /\ open = {}
    /\ focal = {}
    /\ closed = {}
    /\ pc = "call"
    /\ solution = << >>
    /\ iterations = 0

InitNew ==
    /\ grid = GridSplit
    /\ agents \in SplitInstances
    /\ heuristic = Heuristics(GridSplit, agents)
    /\ config \in Configs
    /\ ll = Call("new", << >>)

\* the constraints the agents of a call of detect_conflicts were planned under
PlanConstraintSets ==
    {{}, {VertexC(<<0, 1>>, 1, FALSE)}, {VertexC(<<1, 1>>, 1, FALSE)},
     {VertexC(<<1, 1>>, 1, FALSE), VertexC(<<1, 1>>, 2, FALSE)}}

\* the plan of every agent: its A* path under Cs[a], with its MDD iff bs[a]
Plans(Cs, bs) == [a \in 1..Len(agents) |-> a_star_search(a - 1, Cs[a], 0, bs[a])]

DetectArg(plans, op_target_reasoning) ==
    [paths |-> [a \in DOMAIN plans |-> plans[a].path],
     mdds |-> [a \in DOMAIN plans |-> plans[a].mdd],
     op_target_reasoning |-> op_target_reasoning]

\* the instances detect_conflicts is called on; the agents of the last one
\* share their goal
DetectInstances ==
    Instances \cup { << Agent(<<0, 0>>, <<0, 1>>), Agent(<<0, 2>>, <<0, 1>>) >> }

InitDetect ==
    /\ grid = Grid2x3
    /\ \E instance \in DetectInstances :
         /\ agents = instance
         /\ heuristic = Heuristics(Grid2x3, instance)
    /\ config = NoConfig
    /\ \E Cs \in [1..Len(agents) -> PlanConstraintSets],
          bs \in [1..Len(agents) -> BOOLEAN], op_target_reasoning \in BOOLEAN :
         ll = Call("plan", [Cs |-> Cs, bs |-> bs,
                            op_target_reasoning |-> op_target_reasoning])

InitAStarSearch ==
    /\ grid = Grid2x3
    /\ \E a \in LLAgents :
         /\ agents = <<a>>
         /\ heuristic = Heuristics(Grid2x3, <<a>>)
    /\ config = NoConfig
    /\ \E C \in LLConstraintSets, L \in 0..MaxPathLengthConstraint :
         ll = Call("a_star_search", [agent |-> 0, constraints |-> C,
                                     path_length_constraint |-> L])

\* a call that reads neither the map nor the agents
NoInstance ==
    /\ grid = Grid2x3
    /\ agents = << >>
    /\ heuristic = << >>
    /\ config = NoConfig

\* constraints of moves between equal or adjacent cells
MoveConstraints ==
    {VertexC(p, t, b) : p \in LLCells, t \in 1..MaxConstraintTime, b \in BOOLEAN}
    \cup {EdgeC(m[1], m[2], t) :
            m \in {m \in LLCells \X LLCells : are_neighbors(m[1], m[2])},
            t \in 1..MaxConstraintTime}

InitIsViolated ==
    /\ NoInstance
    /\ \E c \in MoveConstraints, from_pos \in LLCells, to_pos \in LLCells,
          to_tmstep \in 1..(MaxConstraintTime + 1) :
         /\ are_neighbors(from_pos, to_pos)
         /\ ll = Call("is_violated", [c |-> c, from_pos |-> from_pos, to_pos |-> to_pos,
                                      to_tmstep |-> to_tmstep])

\* conflicts of two of three agents
ConvertConflicts ==
    LET pairs == {<<0, 1>>, <<2, 0>>, <<1, 2>>}
    IN {VertexConflict(p[1], p[2], pos, t, "Unknown") :
            p \in pairs, pos \in LLCells, t \in 1..MaxConstraintTime}
       \cup {TargetConflict(p[1], p[2], pos, t, "Unknown") :
            p \in pairs, pos \in LLCells, t \in 1..MaxConstraintTime}
       \cup {EdgeConflict(p[1], p[2], m[1], m[2], t, "Unknown") :
            p \in pairs, m \in {m \in LLCells \X LLCells : are_neighbors(m[1], m[2])},
            t \in 1..MaxConstraintTime}

\* the constraints of a node, left by conflicts at a later step
NodeConstraints == {{}, {VertexC(<<0, 0>>, MaxConstraintTime + 1, FALSE)}}
NodePathLengthConstraints == {<<0, 0, 0>>, <<1, 0, MaxConstraintTime + 1>>}

InitConvert ==
    /\ NoInstance
    /\ \E conflict \in ConvertConflicts, resolve_first \in BOOLEAN,
          target_reasoning \in BOOLEAN, constraints \in [1..3 -> NodeConstraints],
          path_length_constraints \in NodePathLengthConstraints :
         ll = Call("convert_conflict_to_constraint",
                   [conflict |-> conflict, resolve_first |-> resolve_first,
                    target_reasoning |-> target_reasoning,
                    agent_to_update |-> IF resolve_first THEN conflict.agent_1
                                        ELSE conflict.agent_2,
                    constraints |-> constraints,
                    path_length_constraints |-> path_length_constraints])

\* the cells of the grid row by row, and the orders a container may yield
\* them in: the rotations of that order and of its reverse
RowMajor == << <<0, 0>>, <<0, 1>>, <<0, 2>>, <<1, 0>>, <<1, 1>>, <<1, 2>> >>

Rotated(seq, k) == [i \in 1..Len(seq) |-> seq[((i + k - 1) % Len(seq)) + 1]]

Reversed(seq) == [i \in 1..Len(seq) |-> seq[Len(seq) + 1 - i]]

CellOrders ==
    {Rotated(RowMajor, k) : k \in {0, 2, 4}}
    \cup {Rotated(Reversed(RowMajor), k) : k \in {0, 2, 4}}

\* the orders an iterator may yield the set S in
IterOrders(S) ==
    {iter \in [1..Cardinality(S) -> S] :
        \A i, j \in 1..Cardinality(S) : iter[i] = iter[j] => i = j}

InitConstructMdd ==
    /\ grid = Grid2x3
    /\ \E a \in LLAgents :
         /\ agents = <<a>>
         /\ heuristic = Heuristics(Grid2x3, <<a>>)
    /\ config = NoConfig
    /\ \E C \in LLConstraintSets, order \in CellOrders,
          optimal_cost \in 0..(MaxConstraintTime + 1) :
         \E iter \in IterOrders(C) :
            ll = Call("construct_mdd", [agent |-> 0, constraints |-> C, iter |-> iter,
                                        order |-> order, optimal_cost |-> optimal_cost])

InitCalls ==
    /\ CallIdle
    /\ \/ InitNew
       \/ InitConstructMdd
       \/ InitDetect
       \/ InitAStarSearch
       \/ InitIsViolated
       \/ InitConvert

Return(entry, result) ==
    /\ pc = "call"
    /\ ll.entry = entry
    /\ ll' = [ll EXCEPT !.result = result]
    /\ pc' = "returned"
    /\ UNCHANGED <<grid, agents, heuristic, config, open, focal, closed, solution,
                   iterations>>

CallNew == Return("new", new)

\* the agents are planned one by one; the node that detect_conflicts is
\* called on holds their paths and MDDs
PlanAgentsWith(plans) ==
    /\ \A a \in DOMAIN plans : plans[a].status = "found"
    /\ ll' = Call("detect_conflicts", DetectArg(plans, ll.arg.op_target_reasoning))

PlanAgents ==
    /\ pc = "call"
    /\ ll.entry = "plan"
    /\ PlanAgentsWith(Plans(ll.arg.Cs, ll.arg.bs))
    /\ UNCHANGED <<grid, agents, heuristic, config, open, focal, closed, pc, solution,
                   iterations>>

CallDetectConflicts ==
    Return("detect_conflicts",
           detect_conflicts(ll.arg.paths, ll.arg.mdds, ll.arg.op_target_reasoning))

\* a_star_search with build_mdd = true
CallAStarSearch ==
    Return("a_star_search",
           a_star_search(ll.arg.agent, ll.arg.constraints, ll.arg.path_length_constraint,
                         TRUE))

CallIsViolated ==
    Return("is_violated",
           is_violated(ll.arg.c, ll.arg.from_pos, ll.arg.to_pos, ll.arg.to_tmstep))

CallConvert ==
    Return("convert_conflict_to_constraint",
           convert_conflict_to_constraint(ll.arg.conflict, ll.arg.resolve_first,
                                          ll.arg.target_reasoning, ll.arg.agent_to_update,
                                          ll.arg.constraints,
                                          ll.arg.path_length_constraints))

\* the reads of the constraint set and the MDD a search makes of it
CallConstructMdd ==
    Return("construct_mdd",
           [limit |-> limit_in_order(ll.arg.iter, 1, << >>),
            mdd |-> construct_mdd_in_order(ll.arg.agent, ll.arg.iter, ll.arg.order,
                                           ll.arg.optimal_cost)])

NextCalls ==
    \/ CallNew
    \/ CallConstructMdd
    \/ CallAStarSearch
    \/ CallIsViolated
    \/ CallConvert
    \/ PlanAgents
    \/ CallDetectConflicts

SpecCalls == InitCalls /\ [][NextCalls]_vars

Returned(entry) == pc = "returned" /\ ll.entry = entry

----------------------------------------------------------------------------
(* Properties of the functions of the CT node *)

\* the precomputed heuristic of some agent is the "unreached" value at its start
SomeGoalUnreachable ==
    \E a \in 1..Len(agents) : heuristic[a][agents[a].start] = USIZE_MAX

\* C13: HighLevelOpenNode::new returns None whenever the goal of some agent
\* cannot be reached from its start, and it gets there without an addition
\* g + h leaving the range of usize and without a panic.
C13_UnreachableGoalGivesNoRoot ==
    (Returned("new") /\ SomeGoalUnreachable) => ll.result.status = "none"

\* no root is built when a goal is unreachable: the call either returns None
\* or stops at the addition that overflows
C13_UnreachableGoalGivesNoNode ==
    (Returned("new") /\ SomeGoalUnreachable) => ll.result.status \in {"none", "overflow"}

\* with every goal reachable the root is built
C13_ReachableGoalsGiveRoot ==
    (Returned("new") /\ ~SomeGoalUnreachable) => ll.result.status = "found"


\* the pairs i < j of agent ids and the steps detect_conflicts walks through
AgentPairs(paths) == {p \in (0..Len(paths) - 1) \X (0..Len(paths) - 1) : p[1] < p[2]}
PairSteps(paths, p) == 1..(Max(Len(paths[p[1] + 1]), Len(paths[p[2] + 1])) - 1)

\* the cell of a path at step t, the path padded by its last cell
CellAt(path, t) == IF t + 1 <= Len(path) THEN path[t + 1] ELSE path[Len(path)]

\* the two agents are in the same cell at step t
Coincide(paths, p, t) == CellAt(paths[p[1] + 1], t) = CellAt(paths[p[2] + 1], t)

\* step t is inside both paths and each agent enters the cell the other leaves
Swap(paths, p, t) ==
    /\ t < Len(paths[p[1] + 1])
    /\ t < Len(paths[p[2] + 1])
    /\ paths[p[1] + 1][t] = paths[p[2] + 1][t + 1]
    /\ paths[p[2] + 1][t] = paths[p[1] + 1][t + 1]

VertexType(c) == c.conflict_type.kind \in {"Vertex", "Target"}
ConflictPair(c) ==
    IF c.agent_1 < c.agent_2 THEN <<c.agent_1, c.agent_2>> ELSE <<c.agent_2, c.agent_1>>
ConflictStep(c) ==
    IF c.conflict_type.kind = "Edge" THEN c.conflict_type.to_time_step
    ELSE c.conflict_type.time_step

\* the indices of the vertex-type conflicts of pair p at step t
VertexTypeAt(conflicts, p, t) ==
    {k \in DOMAIN conflicts : /\ VertexType(conflicts[k])
                              /\ ConflictPair(conflicts[k]) = p
                              /\ ConflictStep(conflicts[k]) = t}

\* the indices of the conflicts Edge{from = path_i(t - 1), to = path_i(t), t}
\* of pair p = (i, j), agent_1 = i and agent_2 = j
EdgeAt(conflicts, paths, p, t) ==
    {k \in DOMAIN conflicts :
        /\ conflicts[k].conflict_type.kind = "Edge"
        /\ <<conflicts[k].agent_1, conflicts[k].agent_2>> = p
        /\ conflicts[k].conflict_type.to_time_step = t
        /\ conflicts[k].conflict_type.from_position = CellAt(paths[p[1] + 1], t - 1)
        /\ conflicts[k].conflict_type.to_position = CellAt(paths[p[1] + 1], t)}

\* pair, then step, of conflict k is not after that of conflict k + 1
InEmissionOrder(conflicts, k) ==
    LET a == ConflictPair(conflicts[k]) \o <<ConflictStep(conflicts[k])>>
        b == ConflictPair(conflicts[k + 1]) \o <<ConflictStep(conflicts[k + 1])>>
    IN a = b \/ LexLess(a, b, 1)

DetectedAsClaimed(conflicts, paths) ==
    /\ \A p \in AgentPairs(paths) : \A t \in PairSteps(paths, p) :
         /\ Cardinality(VertexTypeAt(conflicts, p, t))
              = IF Coincide(paths, p, t) THEN 1 ELSE 0
         /\ \A k \in VertexTypeAt(conflicts, p, t) :
              conflicts[k].conflict_type.position = CellAt(paths[p[1] + 1], t)
         /\ Cardinality(EdgeAt(conflicts, paths, p, t))
              = IF Swap(paths, p, t) THEN 1 ELSE 0
    /\ \A k \in DOMAIN conflicts :
         \E p \in AgentPairs(paths) : \E t \in PairSteps(paths, p) :
            k \in VertexTypeAt(conflicts, p, t) \cup EdgeAt(conflicts, paths, p, t)
    /\ \A k \in 1..(Len(conflicts) - 1) : InEmissionOrder(conflicts, k)
    /\ conflicts = << >>
         <=> \A p \in AgentPairs(paths) : \A t \in PairSteps(paths, p) :
                ~Coincide(paths, p, t) /\ ~Swap(paths, p, t)

\* C14: detect_conflicts examines every pair i < j and every step from 1 to
\* the longer length - 1, shorter paths padded by their last cell; it emits
\* exactly one vertex-type conflict for (i, j, t) iff the positions coincide,
\* an Edge{path_i(t - 1), path_i(t), t} conflict iff t is inside both paths
\* and the agents swap cells, nothing else, in the order of ascending pair
\* then ascending step; the list is empty iff there is no coincidence and no
\* swap.
C14_ConflictsAreCoincidencesAndSwaps ==
    Returned("detect_conflicts") => DetectedAsClaimed(ll.result, ll.arg.paths)

\* a node with a coincidence, a swap, and conflicts of more than one pair
C14_Witness ==
    /\ Returned("detect_conflicts")
    /\ \E p \in AgentPairs(ll.arg.paths) : \E t \in PairSteps(ll.arg.paths, p) :
         Coincide(ll.arg.paths, p, t)
    /\ \E p \in AgentPairs(ll.arg.paths) : \E t \in PairSteps(ll.arg.paths, p) :
         Swap(ll.arg.paths, p, t)
    /\ \E k \in DOMAIN ll.result :
         ConflictPair(ll.result[k]) # ConflictPair(ll.result[1])


\* agent a has its goal at pos and its path has ended by step t
Owns(paths, a, pos, t) == agents[a + 1].goal = pos /\ t >= Len(paths[a + 1]) - 1

\* what the claim says of the vertex-type conflict c of the pair i < j
ReportedAsClaimed(paths, c, i, j) ==
    LET pos == c.conflict_type.position
        t == c.conflict_type.time_step
    IN /\ c.conflict_type.kind = "Target" <=> Owns(paths, i, pos, t) \/ Owns(paths, j, pos, t)
       /\ <<c.agent_1, c.agent_2>> =
            IF Owns(paths, i, pos, t) THEN <<i, j>>
            ELSE IF Owns(paths, j, pos, t) THEN <<j, i>>
            ELSE <<i, j>>

\* C15: a coincidence at (pos, t) is a Target conflict iff one of the two
\* agents has its goal at pos and its path has ended by step t, agent i
\* before agent j when both do; agent_1 of a Target conflict is that owner
\* and agent_2 the other agent; any other coincidence is a Vertex conflict
\* with agent_1 = i and agent_2 = j.
C15_TargetIffOwnerParked ==
    Returned("detect_conflicts") =>
        \A k \in DOMAIN ll.result :
            VertexType(ll.result[k]) =>
                ReportedAsClaimed(ll.arg.paths, ll.result[k],
                                  ConflictPair(ll.result[k])[1],
                                  ConflictPair(ll.result[k])[2])

\* a Target conflict owned by the second agent of its pair next to a Vertex
\* conflict
C15_Witness ==
    /\ Returned("detect_conflicts")
    /\ \E k \in DOMAIN ll.result : /\ ll.result[k].conflict_type.kind = "Target"
                                   /\ ll.result[k].agent_1 > ll.result[k].agent_2
    /\ \E k \in DOMAIN ll.result : ll.result[k].conflict_type.kind = "Vertex"

\* both agents of a pair are parked on the goal they share
C15_BothOwn ==
    /\ Returned("detect_conflicts")
    /\ \E k \in DOMAIN ll.result :
         LET c == ll.result[k]
         IN /\ c.conflict_type.kind = "Target"
            /\ Owns(ll.arg.paths, c.agent_1, c.conflict_type.position,
                    c.conflict_type.time_step)
            /\ Owns(ll.arg.paths, c.agent_2, c.conflict_type.position,
                    c.conflict_type.time_step)


\* the cells an MDD offers at step t, the agent parked in the last layer
\* from the end of the MDD on
Options(mdd, t) == DOMAIN mdd[IF t + 1 <= Len(mdd) THEN t + 1 ELSE Len(mdd)]

\* the MDD of agent a is singleton at the agent's own coordinates of conflict
\* c: its cell at the step, and for an Edge conflict also its cell one step
\* earlier
OwnSingleton(paths, mdds, c, a) ==
    LET t == ConflictStep(c)
    IN /\ Options(mdds[a + 1], t) = {CellAt(paths[a + 1], t)}
       /\ c.conflict_type.kind = "Edge"
            => Options(mdds[a + 1], t - 1) = {CellAt(paths[a + 1], t - 1)}

HasMdd(mdds, a) == mdds[a + 1] # << >>

\* the number of the two agents of c whose MDD is singleton
Singletons(paths, mdds, c) ==
    Cardinality({a \in {c.agent_1, c.agent_2} :
                    HasMdd(mdds, a) /\ OwnSingleton(paths, mdds, c, a)})

ClassifiedAsClaimed(paths, mdds, op_target_reasoning, c) ==
    c.cardinal_type =
        IF c.conflict_type.kind = "Target" /\ ~op_target_reasoning THEN "Unknown"
        ELSE IF ~HasMdd(mdds, c.agent_1) /\ ~HasMdd(mdds, c.agent_2) THEN "Unknown"
        ELSE IF HasMdd(mdds, c.agent_1) /\ HasMdd(mdds, c.agent_2)
        THEN CASE Singletons(paths, mdds, c) = 2 -> "Cardinal"
               [] Singletons(paths, mdds, c) = 1 -> "SemiCardinal"
               [] Singletons(paths, mdds, c) = 0 -> "NonCardinal"
        ELSE IF Singletons(paths, mdds, c) = 1 THEN "SemiCardinal" ELSE "NonCardinal"

\* the only MDD of an Edge conflict is that of its second agent
EdgeWithSecondMddOnly(mdds, c) ==
    /\ c.conflict_type.kind = "Edge"
    /\ ~HasMdd(mdds, c.agent_1)
    /\ HasMdd(mdds, c.agent_2)

\* C16: a conflict is Cardinal iff both agents have an MDD and both MDDs are
\* singleton at their agent's own coordinates, SemiCardinal iff exactly one
\* of two MDDs is, or the only MDD there is is singleton at its agent's own
\* coordinates, NonCardinal iff none is, Unknown iff there is no MDD; for an
\* Edge conflict the coordinates of an agent are its own cells at t - 1 and
\* at t, also when the only MDD is that of the second agent; a Target
\* conflict is Unknown when target reasoning is off.
C16_CardinalTypeFollowsOwnMdds ==
    Returned("detect_conflicts") =>
        \A k \in DOMAIN ll.result :
            ClassifiedAsClaimed(ll.arg.paths, ll.arg.mdds, ll.arg.op_target_reasoning,
                                ll.result[k])

\* the classification is as claimed for every conflict but the Edge
\* conflicts whose only MDD is that of the second agent
C16_CardinalTypeButSecondMddOnly ==
    Returned("detect_conflicts") =>
        \A k \in DOMAIN ll.result :
            \/ EdgeWithSecondMddOnly(ll.arg.mdds, ll.result[k])
            \/ ClassifiedAsClaimed(ll.arg.paths, ll.arg.mdds, ll.arg.op_target_reasoning,
                                   ll.result[k])

\* an Edge conflict whose only MDD is that of the second agent is never
\* SemiCardinal
C16_SecondMddOnlyIsNonCardinal ==
    Returned("detect_conflicts") =>
        \A k \in DOMAIN ll.result :
            EdgeWithSecondMddOnly(ll.arg.mdds, ll.result[k])
                => ll.result[k].cardinal_type = "NonCardinal"


\* cells from which a cell of `layer` at time t + 1 is entered at time t
ReachPrev(C, layer, t) ==
    {p \in grid : \E n \in layer :
        /\ are_neighbors(p, n)
        /\ \A c \in C : ~Forbids(c, p, n, t + 1)}

\* cells a C-satisfying walk from `from` can be in after d moves
RECURSIVE Forward(_, _, _)
Forward(C, from, d) ==
    IF d = 0 THEN {from} ELSE ReachNext(C, Forward(C, from, d - 1), d - 1)

\* cells at step d from which a C-satisfying walk is in `to` at step K
RECURSIVE Backward(_, _, _, _)
Backward(C, to, d, K) ==
    IF d = K THEN {to} ELSE ReachPrev(C, Backward(C, to, d + 1, K), d)

\* cells occupied at step d by some C-satisfying path of exactly K moves from
\* the start to the goal of agent a
OnPathOfCost(a, C, K, d) ==
    Forward(C, agents[a + 1].start, d) \cap Backward(C, agents[a + 1].goal, d, K)

MddAsClaimed(a, C, K, mdd) ==
    /\ Len(mdd) = K + 1
    /\ \A d \in 0..K : DOMAIN mdd[d + 1] = OnPathOfCost(a, C, K, d)
    /\ DOMAIN mdd[1] = {agents[a + 1].start}
    /\ DOMAIN mdd[K + 1] = {agents[a + 1].goal}
    /\ \A d \in 0..(K - 1) : \A p \in DOMAIN mdd[d + 1] :
         /\ mdd[d + 1][p] \cap DOMAIN mdd[d + 2] # {}
         /\ \A n \in mdd[d + 1][p] : \A c \in C : ~Forbids(c, p, n, d + 1)

\* C18: when A* returns cost K under C and L, construct_mdd(C, K) has the
\* layers 0..K, layer d being exactly the cells occupied at step d by some
\* C-satisfying path of exactly K moves from start to goal: layer 0 is
\* {start}, layer K is {goal} and neither assertion fails, every cell of a
\* layer d < K has a child link into layer d + 1 as it is after pruning, and
\* no cell is entered at a time at which a constraint forbids it.
C18_MddIsThePathsOfCostK ==
    Returned("a_star_search") =>
        /\ ll.result.status \in {"found", "none"}
        /\ ll.result.status = "found" =>
             MddAsClaimed(ll.arg.agent, ll.arg.constraints, ll.result.f_min,
                          ll.result.mdd)

\* an MDD out of which the backward pass has pruned cells, with a layer of
\* more than one cell left
C18_Witness ==
    /\ Returned("a_star_search")
    /\ ll.result.status = "found"
    /\ ll.arg.constraints # {}
    /\ \E d \in 1..Len(ll.result.mdd) : Cardinality(DOMAIN ll.result.mdd[d]) > 1
    /\ \E d \in 1..(Len(ll.result.mdd) - 1) : \E p \in DOMAIN ll.result.mdd[d] :
         ~(ll.result.mdd[d][p] \subseteq DOMAIN ll.result.mdd[d + 1])


\* the optimal cost of agent a under C and L, NoPath when there is no path
OptimalCostUnder(a, C, L) == MinCost(Query(a, C, L, << >>, <<1, 1>>))

\* a vertex constraint at a cell the MDD is singleton at, at one of the steps
\* `steps`, leaves no path or raises the optimal cost to K + 1 at least
SingletonRaisesCost(a, C, L, K, mdd, steps) ==
    \A t \in steps : \A pos \in grid :
        is_singleton_at_position(mdd, t, pos) =>
            \/ OptimalCostUnder(a, C \cup {VertexC(pos, t, FALSE)}, L) = NoPath
            \/ OptimalCostUnder(a, C \cup {VertexC(pos, t, FALSE)}, L) >= K + 1

\* a_star_search has returned the optimal cost with the MDD of that cost
ReturnedOptimalWithMdd ==
    /\ Returned("a_star_search")
    /\ ll.result.status = "found"
    /\ ll.result.f_min = OptimalCostUnder(ll.arg.agent, ll.arg.constraints,
                                          ll.arg.path_length_constraint)

\* C17: with optimal cost K under C and L and M the MDD construct_mdd builds,
\* if M is singleton at (t, pos) for some t <= K then the optimal cost under
\* C with Vertex{pos, t, non-permanent} added is K + 1 at least, when there
\* still is a path.
C17_SingletonRaisesCost ==
    ReturnedOptimalWithMdd =>
        SingletonRaisesCost(ll.arg.agent, ll.arg.constraints,
                            ll.arg.path_length_constraint, ll.result.f_min,
                            ll.result.mdd, 0..ll.result.f_min)

\* C17, amended: the same for the steps 1 <= t <= K, those a conflict can
\* be at; step 0 is not entered, so a constraint on it forbids nothing.
C17_SingletonRaisesCostFromStepOne ==
    ReturnedOptimalWithMdd =>
        SingletonRaisesCost(ll.arg.agent, ll.arg.constraints,
                            ll.arg.path_length_constraint, ll.result.f_min,
                            ll.result.mdd, 1..ll.result.f_min)

\* an MDD that is singleton at a step before its last one and is not at
\* another, the constrained agent having a path left
C17_Witness ==
    /\ ReturnedOptimalWithMdd
    /\ \E t \in 1..(ll.result.f_min - 1) : \E pos \in grid :
         /\ is_singleton_at_position(ll.result.mdd, t, pos)
         /\ OptimalCostUnder(ll.arg.agent,
                             ll.arg.constraints \cup {VertexC(pos, t, FALSE)},
                             ll.arg.path_length_constraint) > ll.result.f_min
    /\ \E t \in 1..ll.result.f_min : Cardinality(DOMAIN ll.result.mdd[t + 1]) > 1


\* what the claim says of is_violated(from, to, t) for the constraint c
ViolatedAsClaimed(c, from, to, t) ==
    CASE c.kind = "Vertex" /\ ~c.is_permanent -> to = c.position /\ t = c.time_step
      [] c.kind = "Vertex" /\ c.is_permanent -> to = c.position /\ t >= c.time_step
      [] c.kind = "Edge" ->
            from = c.from_position /\ to = c.to_position /\ t = c.to_time_step

\* C19: is_violated(from, to, t) is true iff to = p and t = tc for a
\* non-permanent Vertex{p, tc}, to = p and t >= tc for a permanent one,
\* from = u and to = v and t = tc for an Edge{u, v, tc}; the from cell has
\* no effect on a vertex constraint.
C19_IsViolatedAsClaimed ==
    Returned("is_violated") =>
        /\ ll.result <=> ViolatedAsClaimed(ll.arg.c, ll.arg.from_pos, ll.arg.to_pos,
                                           ll.arg.to_tmstep)
        /\ ll.arg.c.kind = "Vertex" =>
             \A from \in grid :
                is_violated(ll.arg.c, from, ll.arg.to_pos, ll.arg.to_tmstep) = ll.result

\* a permanent vertex constraint violated after its time step
C19_Witness ==
    /\ Returned("is_violated")
    /\ ll.result
    /\ ll.arg.c.kind = "Vertex"
    /\ ll.arg.c.is_permanent
    /\ ll.arg.to_tmstep > ll.arg.c.time_step
    /\ ll.arg.from_pos # ll.arg.to_pos

\* the constraint the claim has a Vertex or Edge conflict add
AddedAsClaimed(t, resolve_first) ==
    IF t.kind = "Vertex"
    THEN [kind |-> "Vertex", position |-> t.position, time_step |-> t.time_step,
          is_permanent |-> FALSE]
    ELSE IF resolve_first
    THEN [kind |-> "Edge", from_position |-> t.from_position,
          to_position |-> t.to_position, to_time_step |-> t.to_time_step]
    ELSE [kind |-> "Edge", from_position |-> t.to_position,
          to_position |-> t.from_position, to_time_step |-> t.to_time_step]

\* C20: for a Vertex or Edge conflict convert_conflict_to_constraint adds
\* exactly one constraint, to the set of agent_to_update only, and leaves the
\* sets of the other agents and every path length bound as they were:
\* Vertex{pos, t} gives Vertex{pos, t, non-permanent} on either side,
\* Edge{from, to, t} gives Edge{from, to, t} when resolve_first and
\* Edge{to, from, t} otherwise.
C20_OneConstraintForOneAgent ==
    (/\ Returned("convert_conflict_to_constraint")
     /\ ll.arg.conflict.conflict_type.kind \in {"Vertex", "Edge"}) =>
        /\ ll.result.path_length_constraints = ll.arg.path_length_constraints
        /\ \A a \in DOMAIN ll.arg.constraints :
             ll.result.constraints[a] =
                IF a = ll.arg.agent_to_update + 1
                THEN ll.arg.constraints[a]
                     \cup {AddedAsClaimed(ll.arg.conflict.conflict_type,
                                          ll.arg.resolve_first)}
                ELSE ll.arg.constraints[a]
        /\ Cardinality(ll.result.constraints[ll.arg.agent_to_update + 1])
             = Cardinality(ll.arg.constraints[ll.arg.agent_to_update + 1]) + 1

\* an Edge conflict resolved against its second agent in a node that has
\* constraints and path length bounds
C20_Witness ==
    /\ Returned("convert_conflict_to_constraint")
    /\ ll.arg.conflict.conflict_type.kind = "Edge"
    /\ ll.arg.conflict.conflict_type.from_position
         # ll.arg.conflict.conflict_type.to_position
    /\ ~ll.arg.resolve_first
    /\ \A a \in DOMAIN ll.arg.constraints : ll.arg.constraints[a] # {}
    /\ ll.arg.path_length_constraints[1] > 0


\* what the claim says a Target conflict leaves in the sets and the bounds
TargetConvertedAsClaimed(arg, result) ==
    LET t == arg.conflict.conflict_type
        permanent == [kind |-> "Vertex", position |-> t.position,
                      time_step |-> t.time_step, is_permanent |-> TRUE]
        plain == [kind |-> "Vertex", position |-> t.position,
                  time_step |-> t.time_step, is_permanent |-> FALSE]
        u == arg.agent_to_update + 1
    IN IF arg.target_reasoning /\ ~arg.resolve_first
       THEN /\ \A a \in DOMAIN arg.constraints :
                 result.constraints[a] =
                    IF a = arg.conflict.agent_1 + 1 THEN arg.constraints[a]
                    ELSE arg.constraints[a] \cup {permanent}
            /\ result.path_length_constraints = arg.path_length_constraints
       ELSE /\ \A a \in DOMAIN arg.constraints :
                 result.constraints[a] =
                    IF a = u THEN arg.constraints[a] \cup {plain} ELSE arg.constraints[a]
            /\ \A a \in DOMAIN arg.path_length_constraints :
                 result.path_length_constraints[a] =
                    IF a = u /\ arg.resolve_first
                       /\ arg.path_length_constraints[a] < t.time_step
                    THEN t.time_step ELSE arg.path_length_constraints[a]

\* C21: for a Target{pos, t} conflict, with target reasoning on and
\* resolve_first false the permanent Vertex{pos, t} is added to every agent
\* but conflict.agent_1, whose set is left alone like every path length
\* bound; otherwise only the non-permanent Vertex{pos, t} is added, to
\* agent_to_update, whose bound becomes max(previous, t) iff resolve_first.
C21_TargetConflictConverted ==
    (/\ Returned("convert_conflict_to_constraint")
     /\ ll.arg.conflict.conflict_type.kind = "Target") =>
        TargetConvertedAsClaimed(ll.arg, ll.result)

\* a Target conflict resolved against the interfering agent under target
\* reasoning, in a node with constraints and bounds
C21_Witness ==
    /\ Returned("convert_conflict_to_constraint")
    /\ ll.arg.conflict.conflict_type.kind = "Target"
    /\ ll.arg.target_reasoning
    /\ ~ll.arg.resolve_first
    /\ ll.arg.constraints[ll.arg.conflict.agent_1 + 1] # {}
    /\ ll.arg.path_length_constraints[1] > 0

\* a Target conflict resolved against its owner, whose bound is raised
C21_BoundRaised ==
    /\ Returned("convert_conflict_to_constraint")
    /\ ll.arg.conflict.conflict_type.kind = "Target"
    /\ ll.arg.resolve_first
    /\ ll.result.path_length_constraints # ll.arg.path_length_constraints

----------------------------------------------------------------------------
(* Determinism *)

\* what construct_mdd returns when its containers are read as sets
MddOfSets(agent, constraints, optimal_cost) ==
    IF mdd_asserts_hold(agent,
           mdd_forward(agent, constraints, optimal_cost, {agents[agent + 1].start}, 0),
           optimal_cost)
    THEN [status |-> "found", mdd |-> construct_mdd(agent, constraints, optimal_cost)]
    ELSE [status |-> "panic", mdd |-> << >>]

----------------------------------------------------------------------------
(* Bypass *)

\* the node the next iteration of the driver expands
Expanded ==
    IF config.solver \in {"cbs", "lbcbs"} THEN HLOpenFirst(open)
    ELSE to_open_node(HLFocalFirst(focal))

\* the index of the conflict LBCBS, HBCBS, DECBS and ACBS split on, 0 if none
SplitOn(current_node) ==
    IF config.solver = "hbcbs" THEN (IF Len(current_node.conflicts) = 0 THEN 0 ELSE 1)
    ELSE select_conflict(current_node.conflicts,
                         IF config.solver = "acbs" THEN "first" ELSE "unknown")

\* the bypass predicate of the driver for child k of current_node
Bypasses(current_node, child, k) ==
    /\ config.op_bypass_conflicts
    /\ child[k].status = "found"
    /\ IF config.solver = "hbcbs"
       THEN /\ Len(child[k].node.conflicts) < Len(current_node.conflicts)
            /\ IF k = 1 THEN child[k].node.cost = current_node.cost
               ELSE child[k].node.cost <= current_node.cost
       ELSE sub_optimal_bypass_comparation(current_node, child[k].node, w_low)

\* the children LBCBS, HBCBS, DECBS and ACBS adopt, each with its agent
AdoptedOf(current_node, conflict, child) ==
    IF Aborted(child[1]) THEN {}
    ELSE IF config.solver = "hbcbs"
    THEN IF Bypasses(current_node, child, 1) THEN {<<child[1].node, {conflict.agent_1}>>}
         ELSE IF ~Aborted(child[2]) /\ Bypasses(current_node, child, 2)
         THEN {<<child[2].node, {conflict.agent_2}>>}
         ELSE {}
    ELSE IF Aborted(child[2]) THEN {}
    ELSE {<<child[k].node, {IF k = 1 THEN conflict.agent_1 ELSE conflict.agent_2}>> :
            k \in {k \in {1, 2} : Bypasses(current_node, child, k)}}

\* what the loop of CBS over the conflicts of current_node leaves behind
CbsLoop(current_node) ==
    cbs_conflicts(current_node,
        [find_cardinal |-> FALSE, find_semi_cardinal |-> FALSE,
         find_adopting |-> FALSE, child_left |-> << >>, child_right |-> << >>,
         adopting_node |-> << >>, has_children |-> FALSE,
         stop |-> FALSE, abort |-> ""], 1)

\* the child CBS adopts, with the agents one of which it was planned for
CbsAdopted(acc) ==
    IF acc.abort = "" /\ ~acc.find_cardinal /\ config.op_bypass_conflicts
       /\ acc.find_adopting
    THEN {<<acc.adopting_node, 0..(Len(agents) - 1)>>}
    ELSE {}

\* the adoptions of the iteration that starts in this state
Adopted(current_node, ci) ==
    IF config.solver = "cbs"
    THEN (IF Len(current_node.conflicts) = 0 THEN {} ELSE CbsAdopted(CbsLoop(current_node)))
    ELSE IF ci = 0 THEN {}
    ELSE AdoptedOf(current_node, current_node.conflicts[ci],
                   children(current_node, current_node.conflicts[ci]))

Adoptions ==
    IF pc # "loop" \/ config.solver \in {"bcbs", "ecbs"} \/ ~config.op_bypass_conflicts
    THEN {}
    ELSE IF (IF config.solver \in {"cbs", "lbcbs"} THEN open ELSE focal) = {} THEN {}
    ELSE IF config.solver # "cbs" /\ config.solver # "lbcbs" /\ open = {} THEN {}
    ELSE Adopted(Expanded, SplitOn(Expanded))

\* node is the parent with the path, f_min and MDD of `agent` and the
\* conflict list taken from the child
Framed(parent, child, agent, node) ==
    /\ node.constraints = parent.constraints
    /\ node.path_length_constraints = parent.path_length_constraints
    /\ node.paths = [parent.paths EXCEPT ![agent + 1] = child.paths[agent + 1]]
    /\ node.low_level_f_min_agents[agent + 1] = child.low_level_f_min_agents[agent + 1]
    /\ node.mdds[agent + 1] = child.mdds[agent + 1]
    /\ node.conflicts = child.conflicts

FramedBySome(parent, adopted, node) ==
    \E ad \in adopted : \E agent \in ad[2] : Framed(parent, ad[1], agent, node)

\* C23: in an iteration that adopts a bypass, every node that enters the open
\* list or the focal list carries the parent's constraint sets and
\* path-length bounds unchanged, the parent's paths for every agent but the
\* updated one, and the child's path, f_min and MDD for the updated agent
\* together with the child's conflict list.
C23_AdoptedNodeKeepsParentFrame ==
    [][Adoptions # {} =>
          /\ \A node \in open' \ open : FramedBySome(Expanded, Adoptions, node)
          /\ config.solver \in {"hbcbs", "decbs", "acbs"} =>
                \A node \in focal' \ focal :
                    FramedBySome(Expanded, Adoptions, to_open_node(node))]_vars

\* the same statement for the open list of LBCBS, DECBS and ACBS, the lists
\* update_bypass_node fills
C23_UpdateBypassNodeKeepsParentFrame ==
    [][(Adoptions # {} /\ config.solver \in {"lbcbs", "decbs", "acbs"}) =>
          \A node \in open' \ open : FramedBySome(Expanded, Adoptions, node)]_vars

----------------------------------------------------------------------------
(* Double search *)

\* standard_focal_double_search has returned Some((path, x))
DoubleSearchFound == LLReturned /\ ll.entry = "double" /\ ll.s.status = "found"

\* C24: when the double search returns (path, x), x is the f_min the first
\* pass obtained, not the cost of the path the second pass found.
C24_DoubleSearchReturnsFirstFMin == DoubleSearchFound => ll.s.f_ret = ll.first_f_min

\* what is returned is the cost of the path of the second pass
C24_DoubleSearchReturnsPathCost == DoubleSearchFound => ll.s.f_ret = Len(ll.s.path) - 1

\* a double search that returns a path longer than the first pass's f_min
C24_LongerPathReturned == DoubleSearchFound /\ Len(ll.s.path) - 1 > ll.first_f_min

----------------------------------------------------------------------------
(* The focal list of the dual-queue searches *)

\* a dual-queue search stands at the start of an iteration
DualQueueIteration ==
    /\ ll.s # << >>
    /\ ll.kind \in {"standard_focal", "alternating_focal"}
    /\ ll.s.status = "running"

\* the two nodes are one search node: same position, g and f_focal
SameNode(a, b) ==
    a.position = b.position /\ a.g_cost = b.g_cost /\ a.f_focal_cost = b.f_focal_cost

\* the least f_open of the open list
LeastFOpen(s) == OpenFirst(s.open_list).f_open_cost

FocalWithinOpen(s) == \A n \in s.focal_list : \E m \in s.open_list : SameNode(m, n)

\* the focal list is the open list within w * f_min
FocalIsBound(s, w, f_min) ==
    /\ \A n \in s.focal_list : WithinBound(n.f_open_cost, f_min, w)
    /\ \A m \in s.open_list :
         WithinBound(m.f_open_cost, f_min, w) => \E n \in s.focal_list : SameNode(m, n)

\* C25: at the start of every iteration of a dual-queue search the focal list
\* holds exactly the nodes of the open list with f_open <= w * f_min, f_min
\* being the least f_open of the open list: every focal node is in the open
\* list with the same position, g and f_focal, no open node within the bound
\* is missing, the focal list is empty only when the open list is, and the
\* removal assertion after a focal pop does not fail.
C25_FocalIsOpenWithinBound ==
    /\ DualQueueIteration =>
          /\ FocalWithinOpen(ll.s)
          /\ ll.s.open_list # {} => FocalIsBound(ll.s, ll.q.w, LeastFOpen(ll.s))
          /\ ll.s.focal_list = {} => ll.s.open_list = {}
    /\ (ll.s # << >> /\ ll.kind \in {"standard_focal", "alternating_focal"})
          => ll.s.status # "panic"

\* an iteration of a search with w > 1 starts with two nodes in the focal
\* list and a node of the open list beyond the bound
C25_Witness ==
    /\ DualQueueIteration
    /\ ll.steps >= 2
    /\ ll.q.w # <<1, 1>>
    /\ Cardinality(ll.s.focal_list) >= 2
    /\ \E m \in ll.s.open_list : ~WithinBound(m.f_open_cost, LeastFOpen(ll.s), ll.q.w)

----------------------------------------------------------------------------
(* f_min of the dual-queue searches *)

\* a dual-queue search is under way or has returned
DualQueueRun == ll.s # << >> /\ ll.kind \in {"standard_focal", "alternating_focal"}

\* f_min does not exceed the least cost of a path that satisfies the
\* constraints and the path-length bound, which is what open-cost A* returns
\* when it returns a path
FMinAdmissible ==
    (DualQueueRun /\ ll.s.status \in {"running", "found"} /\ MinCost(ll.q) # NoPath)
        => ll.s.f_min <= MinCost(ll.q)

FMinMonotone == (DualQueueRun /\ ll'.s # << >>) => ll'.s.f_min >= ll.s.f_min

C27_FMinNeverDecreases == [][FMinMonotone]_vars

\* f_min does not exceed the optimum in the calls whose L does not exceed the
\* last constraint time T*
C27_FMinBelowOptimumWithinHorizon ==
    ll.q.path_length_constraint <= ll.q.constraint_limit_time_step => FMinAdmissible

\* a dual-queue search returns an f_min above the optimum
C27_ReturnedAboveOptimum ==
    /\ DualQueueRun
    /\ ll.s.status = "found"
    /\ MinCost(ll.q) # NoPath
    /\ ll.s.f_ret > MinCost(ll.q)

----------------------------------------------------------------------------
(* The focal list of the drivers *)

FocalDrivers == {"hbcbs", "decbs", "acbs", "bcbs"}

\* a focal driver stands at the start of an iteration
FocalDriverIteration == pc = "loop" /\ config.solver \in FocalDrivers

\* the lower bound the driver reads off the first node of the open list, and
\* the factor it multiplies it with
LowerBound ==
    IF config.solver \in {"hbcbs", "bcbs"} THEN HLOpenFirst(open).cost
    ELSE SeqSum(HLOpenFirst(open).low_level_f_min_agents, 1)

DriverFactor == IF config.solver \in {"hbcbs", "bcbs"} THEN w_high ELSE w_low

\* every focal node has a counterpart in open with the same cost, conflicts
\* and paths
FocalHasCounterparts == \A n \in focal : \E m \in open : HLOpenEq(m, to_open_node(n))

\* every open node whose cost is within the factor times the lower bound is
\* in focal
OpenWithinBoundInFocal ==
    open # {} =>
        \A m \in open :
            WithinBound(m.cost, LowerBound, DriverFactor)
                => \E n \in focal : HLOpenEq(m, to_open_node(n))

\* C26: in HBCBS, DECBS, ACBS and BCBS, at the start of every iteration each
\* focal node has a counterpart in open with the same cost, conflicts and
\* paths, every open node whose cost is within w times the current lower
\* bound is in focal, focal is empty only when open is, and solve does not
\* return nothing while nodes remain in open.
C26_DriverFocalIsOpenWithinBound ==
    /\ FocalDriverIteration =>
          /\ FocalHasCounterparts
          /\ OpenWithinBoundInFocal
          /\ focal = {} => open = {}
    /\ (pc = "nosolution" /\ config.solver \in FocalDrivers) => open = {}

\* the same statement for the runs without bypass
C26_WithoutBypass == ~config.op_bypass_conflicts => C26_DriverFocalIsOpenWithinBound

\* all of the statement but the completeness of focal, for every run
C26_CounterpartsAndEmptiness ==
    /\ FocalDriverIteration => (FocalHasCounterparts /\ (focal = {} => open = {}))
    /\ (pc = "nosolution" /\ config.solver \in FocalDrivers) => open = {}

----------------------------------------------------------------------------
(* f_focal and the trace in the dual-queue searches *)

\* the sum of h_focal over the moves of `path`, the move into path[i + 1]
\* arriving at time i
RECURSIVE PathFocalCost(_, _, _)
PathFocalCost(q, path, i) ==
    IF i >= Len(path) THEN 0
    ELSE heuristic_focal(q.agent, path[i + 1], path[i], i, q.paths)
         + PathFocalCost(q, path, i + 1)

\* the f_focal of node n is that of the path the trace holds for it
FFocalOfTrace(q, s, n) ==
    n.f_focal_cost = PathFocalCost(q, construct_path(s.trace, <<n.position, n.g_cost>>), 1)

\* the f_focal recorded for a key is that of the path the trace holds for it
MapOfTrace(q, s) ==
    \A key \in DOMAIN s.f_focal_cost_map :
        s.f_focal_cost_map[key] = PathFocalCost(q, construct_path(s.trace, key), 1)

\* C28: in the dual-queue focal searches the f_focal of every node in open
\* or focal equals the sum of h_focal over the moves of the path that
\* construct_path rebuilds from the trace for the node's (pos, g).
C28_FFocalIsCostOfTracedPath ==
    (DualQueueRun /\ ll.s.status = "running") =>
        \A n \in ll.s.open_list \cup ll.s.focal_list : FFocalOfTrace(ll.q, ll.s, n)

\* a node of open whose f_focal is below that of its traced path
C28_RelinkedWithoutTrace ==
    /\ DualQueueRun
    /\ ll.s.status = "running"
    /\ \E n \in ll.s.open_list :
          n.f_focal_cost
            < PathFocalCost(ll.q, construct_path(ll.s.trace, <<n.position, n.g_cost>>), 1)

\* the f_focal of a node of open or focal is never above that of its traced
\* path
C28_FFocalNeverAboveTracedPath ==
    (DualQueueRun /\ ll.s.status = "running") =>
        \A n \in ll.s.open_list \cup ll.s.focal_list :
            n.f_focal_cost
              <= PathFocalCost(ll.q, construct_path(ll.s.trace, <<n.position, n.g_cost>>), 1)

\* a dual-queue search returns a path with more conflicts than the f_focal
\* recorded for the accepted node
C28_ReturnedPathAboveFFocal ==
    /\ DualQueueRun
    /\ ll.s.status = "found"
    /\ ll.s.f_focal_cost_map[<<ll.s.path[Len(ll.s.path)], Len(ll.s.path) - 1>>]
         < PathFocalCost(ll.q, ll.s.path, 1)

----------------------------------------------------------------------------
(* The time step of the search nodes *)

\* the time step of a node of cost g: g up to the constraint limit, then
\* frozen one past it
FrozenTimeStep(q, g) ==
    IF g <= q.constraint_limit_time_step THEN g ELSE q.constraint_limit_time_step + 1

\* a low-level search has started
SearchStarted == ll.s # << >>

NodesFrozen(q, s) ==
    \A n \in s.open_list \cup s.focal_list : n.time_step = FrozenTimeStep(q, n.g_cost)

ClosedFrozen(q, s) ==
    \A c \in s.closed_list : c[2] <= q.constraint_limit_time_step + 1

\* C29: in every low-level search every generated node has time_step = g
\* while g <= T* and time_step = T* + 1 once g > T*, and the closed set
\* records that time_step.
C29_TimeStepFrozenPastLimit == SearchStarted => NodesFrozen(ll.q, ll.s) /\ ClosedFrozen(ll.q, ll.s)

\* the same statement for the searches other than
\* standard_focal_a_star_search
C29_FrozenButStandardFocal ==
    (SearchStarted /\ ll.kind # "standard_focal") => NodesFrozen(ll.q, ll.s) /\ ClosedFrozen(ll.q, ll.s)

\* standard_focal_a_star_search gives every node its g as time step
C29_StandardFocalTimeStepIsG ==
    (SearchStarted /\ ll.kind = "standard_focal") =>
        \A n \in ll.s.open_list \cup ll.s.focal_list : n.time_step = n.g_cost

\* a node of standard_focal_a_star_search two moves past the limit
C29_UnfrozenNode ==
    /\ SearchStarted
    /\ ll.kind = "standard_focal"
    /\ \E n \in ll.s.open_list :
          n.g_cost > ll.q.constraint_limit_time_step + 1 /\ n.time_step = n.g_cost

----------------------------------------------------------------------------
(* The paths of the CT nodes of the frontier *)

\* `path` violates none of the constraints: each transition is tested at its
\* arrival time, and the agent stays on its last cell for ever after
KeepsConstraints(constraints, path) ==
    /\ \A i \in 1..(Len(path) - 1) :
          \A c \in constraints : ~Forbids(c, path[i], path[i + 1], i)
    /\ \A c \in constraints :
          (c.kind = "Vertex" /\ c.is_permanent) => c.position # path[Len(path)]

\* the path stored for `agent` in `node` keeps the constraints and the
\* path-length bound stored for that agent
StoredPathKept(node, agent) ==
    /\ KeepsConstraints(node.constraints[agent + 1], node.paths[agent + 1])
    /\ Len(node.paths[agent + 1]) - 1 > node.path_length_constraints[agent + 1]

NodeKept(node) == \A agent \in 0..(Len(agents) - 1) : StoredPathKept(node, agent)

\* C30: in every CT node of the frontier the stored path of every agent
\* violates none of the constraints stored for that agent in the node and has
\* more moves than the agent's path-length bound.
C30_FrontierPathsKeepConstraints == \A node \in Frontier : NodeKept(node)

\* the same statement for the runs without target reasoning
C30_WithoutTargetReasoning ==
    ~config.op_target_reasoning => \A node \in Frontier : NodeKept(node)

\* every stored path has more moves than its path-length bound
C30_FrontierPathsKeepLengthBound ==
    \A node \in Frontier : \A agent \in 0..(Len(agents) - 1) :
        Len(node.paths[agent + 1]) - 1 > node.path_length_constraints[agent + 1]

\* every stored path keeps the constraints of its agent that are not
\* permanent
C30_FrontierPathsKeepPlainConstraints ==
    \A node \in Frontier : \A agent \in 0..(Len(agents) - 1) :
        KeepsConstraints({c \in node.constraints[agent + 1] :
                              ~(c.kind = "Vertex" /\ c.is_permanent)},
                         node.paths[agent + 1])

----------------------------------------------------------------------------
(* The cost of the CT nodes of the frontier *)

RECURSIVE SumOfPathCosts(_, _)
SumOfPathCosts(paths, i) ==
    IF i > Len(paths) THEN 0 ELSE (Len(paths[i]) - 1) + SumOfPathCosts(paths, i + 1)

\* `self.cost - new_paths[agent].len()` of update_constraint stays in usize
\* for both agents of every conflict the node can be split on
SubtractionInRange(node) ==
    \A i \in 1..Len(node.conflicts) :
        /\ node.cost >= Len(node.paths[node.conflicts[i].agent_1 + 1])
        /\ node.cost >= Len(node.paths[node.conflicts[i].agent_2 + 1])

\* C31: every CT node of the frontier (root, constraint child, bypass-adopted
\* node) has cost = the sum over the agents of len(path) - 1, and the
\* subtraction that computes a child's cost from it does not underflow.
C31_CostIsSumOfPathCosts ==
    \A node \in Frontier :
        node.cost = SumOfPathCosts(node.paths, 1) /\ SubtractionInRange(node)

\* a node of the frontier below the root whose cost is above the sum of the
\* shortest distances, with a conflict left to split on
C31_Witness ==
    \E node \in Frontier :
        /\ \E i \in 1..Len(agents) : node.constraints[i] # {}
        /\ node.cost > SeqSum([i \in 1..Len(agents) |-> heuristic[i][agents[i].start]], 1)
        /\ node.conflicts # << >>

----------------------------------------------------------------------------
(* The conflicts of the CT nodes of the frontier *)

\* the conflict list stored in the node is the one detect_conflicts finds in
\* the node's own paths and MDDs
ConflictsDetected(node) ==
    node.conflicts = detect_conflicts(node.paths, node.mdds, config.op_target_reasoning)

\* C32: for every CT node of the frontier, bypass-adopted nodes included, the
\* stored conflict list is the result of detect_conflicts on the node's own
\* paths and MDDs.
C32_ConflictsAreDetected == \A node \in Frontier : ConflictsDetected(node)

\* the same statement for the drivers other than HBCBS, whose bypass is
\* update_bypass_node
C32_ConflictsDetectedButHBCBS ==
    config.solver # "hbcbs" => \A node \in Frontier : ConflictsDetected(node)

Unclassified(conflicts) ==
    [i \in 1..Len(conflicts) |-> [conflicts[i] EXCEPT !.cardinal_type = "Unknown"]]

\* in every driver the stored conflicts are the detected ones up to their
\* cardinal class
C32_ConflictsDetectedUpToClass ==
    \A node \in Frontier :
        Unclassified(node.conflicts)
          = Unclassified(detect_conflicts(node.paths, node.mdds, config.op_target_reasoning))

\* a node without constraints is in the frontier of HBCBS after the root has
\* been popped, and its conflicts are not the detected ones: the root's path
\* was replaced by a bypass and its MDD was not
C32_AdoptedWithStaleMdd ==
    /\ pc = "loop"
    /\ iterations >= 2
    /\ config.solver = "hbcbs"
    /\ \E node \in Frontier :
          /\ \A i \in 1..Len(agents) : node.constraints[i] = {}
          /\ ~ConflictsDetected(node)

----------------------------------------------------------------------------
(* The bypass of the optimal-cost drivers *)

\* the node is in the list, under the order of the list
InOpen(list, node) == \E m \in list : HLOpenEq(m, node)

\* the child comes out of a split of current_node on a conflict that is not
\* Cardinal, neither by its stored class nor by the cost of its children
ChildOfPlainConflict(current_node, node, child, conflict) ==
    /\ \E k \in {1, 2} : child[k].status = "found" /\ child[k].node = node
    /\ conflict.cardinal_type # "Cardinal"
    /\ \E k \in {1, 2} : child[k].status = "found" /\ child[k].node.cost <= current_node.cost

\* the rule for one adopted child
BypassRule(current_node, node) ==
    /\ config.op_bypass_conflicts
    /\ node.cost = current_node.cost
    /\ Len(node.conflicts) < Len(current_node.conflicts)

\* CBS: acc is what the loop over the conflicts has left, adopted the
\* adoptions of the iteration, next_open the open list after it
CbsBypassRule(current_node, acc, adopted, next_open) ==
    /\ \A ad \in adopted :
          /\ BypassRule(current_node, ad[1])
          /\ \E i \in 1..Len(current_node.conflicts) :
                ChildOfPlainConflict(current_node, ad[1],
                    children(current_node, current_node.conflicts[i]),
                    current_node.conflicts[i])
    /\ (acc.abort = "" /\ acc.find_cardinal) =>
          /\ adopted = {}
          /\ InOpen(next_open, acc.child_left)
          /\ InOpen(next_open, acc.child_right)

\* HBCBS: child holds the two children of the first conflict
HbcbsBypassRule(current_node, conflict, child, adopted, next_open) ==
    /\ \A ad \in adopted :
          /\ BypassRule(current_node, ad[1])
          /\ ChildOfPlainConflict(current_node, ad[1], child, conflict)
    /\ (conflict.cardinal_type = "Cardinal"
          /\ child[1].status = "found" /\ child[2].status = "found") =>
          /\ adopted = {}
          /\ InOpen(next_open, child[1].node)
          /\ InOpen(next_open, child[2].node)

\* CBS or HBCBS is about to expand a node with conflicts
OptimalDriverExpands ==
    /\ pc = "loop"
    /\ config.solver \in {"cbs", "hbcbs"}
    /\ open # {}
    /\ config.solver = "hbcbs" => focal # {}
    /\ Len(Expanded.conflicts) > 0

OptimalBypassRule(current_node, next_open) ==
    IF config.solver = "cbs"
    THEN CbsBypassRule(current_node, CbsLoop(current_node), Adoptions, next_open)
    ELSE HbcbsBypassRule(current_node, current_node.conflicts[1],
                         children(current_node, current_node.conflicts[1]),
                         Adoptions, next_open)

\* C33: in CBS and HBCBS a child is adopted as a bypass only if bypass is
\* enabled, the child's cost equals the parent's, the child has strictly
\* fewer conflicts than the parent and the conflict it comes from is not
\* Cardinal; when a Cardinal conflict is found both constraint children are
\* inserted and no bypass is taken.
C33_OptimalBypassRule == [][OptimalDriverExpands => OptimalBypassRule(Expanded, open')]_vars

\* CBS has found a child to adopt and a Cardinal conflict after it
C33_WitnessCbs ==
    /\ OptimalDriverExpands
    /\ config.solver = "cbs"
    /\ config.op_bypass_conflicts
    /\ iterations < MaxIterations
    /\ CbsLoop(Expanded).find_cardinal
    /\ CbsLoop(Expanded).find_adopting

\* a bypass is taken, in CBS or in HBCBS
C33_Witness ==
    /\ OptimalDriverExpands
    /\ iterations < MaxIterations
    /\ Adoptions # {}

----------------------------------------------------------------------------
(* The bypass of the suboptimal drivers *)

\* the predicate of the specification for the child planned for `agent`
BypassPermitted(parent, child, agent, w) ==
    /\ Len(child.conflicts) < Len(parent.conflicts)
    /\ WithinBound(child.cost, SeqSum(parent.low_level_f_min_agents, 1), w)
    /\ WithinBound(Len(child.paths[agent + 1]) - 1,
                   parent.low_level_f_min_agents[agent + 1], w)

\* the comparison of the code agrees with the predicate on child k
ComparisonAgrees(parent, conflict, child, k) ==
    child[k].status = "found" =>
        (sub_optimal_bypass_comparation(parent, child[k].node, w_low)
           <=> BypassPermitted(parent, child[k].node,
                               IF k = 1 THEN conflict.agent_1 ELSE conflict.agent_2, w_low))

ComparisonAgreesOnBoth(parent, conflict, child) ==
    ComparisonAgrees(parent, conflict, child, 1) /\ ComparisonAgrees(parent, conflict, child, 2)

\* LBCBS, DECBS or ACBS is about to split a node
SuboptimalDriverSplits ==
    /\ pc = "loop"
    /\ config.solver \in {"lbcbs", "decbs", "acbs"}
    /\ open # {}
    /\ config.solver # "lbcbs" => focal # {}
    /\ SplitOn(Expanded) > 0

SplitAgrees(current_node, ci) ==
    ComparisonAgreesOnBoth(current_node, current_node.conflicts[ci],
                           children(current_node, current_node.conflicts[ci]))

\* C34: in LBCBS, DECBS and ACBS sub_optimal_bypass_comparation permits a
\* bypass iff the child has fewer conflicts than the parent, its cost is
\* within w times the sum of the parent's f_min and the new path of the
\* updated agent is within w times the parent's f_min of that agent.
C34_BypassComparisonIsPredicate ==
    SuboptimalDriverSplits => SplitAgrees(Expanded, SplitOn(Expanded))

\* a child is refused for the path of the updated agent alone
RefusedForPath(parent, conflict, child, k) ==
    /\ child[k].status = "found"
    /\ Len(child[k].node.conflicts) < Len(parent.conflicts)
    /\ WithinBound(child[k].node.cost, SeqSum(parent.low_level_f_min_agents, 1), w_low)
    /\ ~sub_optimal_bypass_comparation(parent, child[k].node, w_low)

SplitRefusesForPath(current_node, ci) ==
    \E k \in {1, 2} :
        RefusedForPath(current_node, current_node.conflicts[ci],
                       children(current_node, current_node.conflicts[ci]), k)

C34_Witness == SuboptimalDriverSplits /\ SplitRefusesForPath(Expanded, SplitOn(Expanded))

\* a child is permitted
C34_WitnessPermitted == SuboptimalDriverSplits /\ Adoptions # {}

----------------------------------------------------------------------------
(* The conflict a driver branches on *)

ClassRank(class) ==
    CASE class = "Cardinal" -> 0
      [] class = "SemiCardinal" -> 1
      [] class = "NonCardinal" -> 2
      [] class = "Unknown" -> 3

\* the index of the first conflict of the best class present, 0 for the
\* empty list
BestConflict(conflicts) ==
    IF Len(conflicts) = 0 THEN 0
    ELSE CHOOSE i \in 1..Len(conflicts) :
            /\ \A j \in 1..Len(conflicts) :
                  ClassRank(conflicts[i].cardinal_type) <= ClassRank(conflicts[j].cardinal_type)
            /\ \A j \in 1..(i - 1) :
                  ClassRank(conflicts[j].cardinal_type) > ClassRank(conflicts[i].cardinal_type)

\* the conflict the claim selects
ClaimedConflict(conflicts) ==
    IF config.op_prioritize_conflicts THEN BestConflict(conflicts)
    ELSE IF Len(conflicts) = 0 THEN 0 ELSE 1

\* every node that enters the open list is a child of the split of
\* current_node on `conflict`, or current_node with such a child adopted
EntersFrom(current_node, conflict, child, entering) ==
    \A node \in entering :
        \E k \in {1, 2} :
            /\ child[k].status = "found"
            /\ \/ node = child[k].node
               \/ node = update_bypass_node(current_node, child[k].node,
                             IF k = 1 THEN conflict.agent_1 ELSE conflict.agent_2)

\* LBCBS, DECBS or ACBS is about to pop a node
SelectingDriverPops ==
    /\ pc = "loop"
    /\ config.solver \in {"lbcbs", "decbs", "acbs"}
    /\ open # {}
    /\ config.solver # "lbcbs" => focal # {}

SelectionRule(current_node, ci, next_pc, next_solution, entering) ==
    IF ci = 0
    THEN /\ Len(current_node.conflicts) = 0
         /\ next_pc = "solved"
         /\ next_solution.paths = current_node.paths
    ELSE /\ Len(current_node.conflicts) > 0
         /\ next_pc # "solved"
         /\ EntersFrom(current_node, current_node.conflicts[ci],
                       children(current_node, current_node.conflicts[ci]), entering)

C35_SolutionHasNoConflicts == pc = "solved" => Len(solution.conflicts) = 0

\* HBCBS pops a node whose best conflict is not its first
C35_HbcbsBestIsNotFirst ==
    /\ pc = "loop"
    /\ config.solver = "hbcbs"
    /\ config.op_prioritize_conflicts
    /\ open # {} /\ focal # {}
    /\ iterations < MaxIterations
    /\ BestConflict(Expanded.conflicts) > 1

----------------------------------------------------------------------------
(* Progress of branching *)

\* `path` does not take the step of `conflict` that belongs to the agent
\* update_constraint(conflict, resolve_first) plans for
StepAvoided(path, conflict, resolve_first) ==
    LET ct == conflict.conflict_type
    IN IF ct.kind = "Edge"
       THEN LET t == ct.to_time_step
                from == IF resolve_first THEN ct.from_position ELSE ct.to_position
                to == IF resolve_first THEN ct.to_position ELSE ct.from_position
            IN ~(t < Len(path) /\ path[t] = from /\ path[t + 1] = to)
       ELSE PathAt(path, ct.time_step) # ct.position

\* the conflict (agent pair, kind, cells and time) is not in the list
ConflictGone(conflicts, conflict) ==
    \A j \in 1..Len(conflicts) :
        ~(/\ {conflicts[j].agent_1, conflicts[j].agent_2} = {conflict.agent_1, conflict.agent_2}
          /\ conflicts[j].conflict_type = conflict.conflict_type)

ChildProgresses(conflict, child, resolve_first) ==
    child.status = "found" =>
        /\ StepAvoided(child.node.paths[(IF resolve_first THEN conflict.agent_1
                                         ELSE conflict.agent_2) + 1],
                       conflict, resolve_first)
        /\ ConflictGone(child.node.conflicts, conflict)

BothProgress(conflict, child) ==
    ChildProgresses(conflict, child[1], TRUE) /\ ChildProgresses(conflict, child[2], FALSE)

SplitsProgress(current_node) ==
    \A i \in 1..Len(current_node.conflicts) :
        BothProgress(current_node.conflicts[i],
                     children(current_node, current_node.conflicts[i]))

\* a driver is about to pop a node (the heap of ECBS is left out)
DriverPops ==
    /\ pc = "loop"
    /\ config.solver # "ecbs"
    /\ open # {}
    /\ config.solver \notin {"cbs", "lbcbs"} => focal # {}

\* C36: in every child update_constraint returns for a conflict of the popped
\* node, the new path of the updated agent does not take the conflicting
\* step and the conflict is not in the child's conflict list.
C36_ChildResolvesConflict == DriverPops => SplitsProgress(Expanded)

\* a node with an Edge and a Vertex conflict is popped and both children of
\* its first conflict are found
C36_Witness ==
    /\ DriverPops
    /\ \E i \in 1..Len(Expanded.conflicts) : Expanded.conflicts[i].conflict_type.kind = "Edge"
    /\ \E i \in 1..Len(Expanded.conflicts) : Expanded.conflicts[i].conflict_type.kind = "Vertex"
    /\ \A k \in 1..2 : children(Expanded, Expanded.conflicts[1])[k].status = "found"

\* a Target conflict is split under target reasoning
C36_WitnessTarget ==
    /\ DriverPops
    /\ config.op_target_reasoning
    /\ \E i \in 1..Len(Expanded.conflicts) : Expanded.conflicts[i].conflict_type.kind = "Target"

----------------------------------------------------------------------------
(* Path length constraints and the constraint horizon *)

\* the path length constraint of every agent is at most the largest time of
\* the agent's constraints
WithinHorizon(constraints, path_length_constraints) ==
    \A a \in 1..Len(constraints) :
        path_length_constraints[a] <= constraint_limit_time_step(constraints[a])

ConvertedWithinHorizon(node, conflict, resolve_first) ==
    LET agent_to_update == IF resolve_first THEN conflict.agent_1 ELSE conflict.agent_2
        converted == convert_conflict_to_constraint(conflict, resolve_first,
                         config.op_target_reasoning, agent_to_update,
                         node.constraints, node.path_length_constraints)
    IN WithinHorizon(converted.constraints, converted.path_length_constraints)

\* C37: the path length constraint of every agent of every CT node of the
\* frontier is at most the largest time of the agent's constraints, and so
\* are the arguments of every low-level search update_constraint starts for
\* a conflict of the popped node.
C37_LengthBoundWithinHorizon ==
    /\ pc # "root" =>
           \A node \in Frontier : WithinHorizon(node.constraints, node.path_length_constraints)
    /\ DriverPops =>
           \A i \in 1..Len(Expanded.conflicts), resolve_first \in BOOLEAN :
               ConvertedWithinHorizon(Expanded, Expanded.conflicts[i], resolve_first)

\* a node of the frontier carries a raised path length constraint
C37_Witness ==
    /\ pc = "loop"
    /\ \E node \in Frontier : \E a \in 1..Len(agents) : node.path_length_constraints[a] > 0

----------------------------------------------------------------------------
(* The keys of the open list *)

\* no two nodes of the list have equal cost, conflicts and paths
KeysDistinct(list) == \A m, n \in list : HLOpenEq(m, n) => m = n

\* a node stored under the key of `node` that differs from it in its
\* constraints or path length constraints
StoredUnderKey(list, node) ==
    {m \in list : /\ HLOpenEq(m, node)
                  /\ \/ m.constraints # node.constraints
                     \/ m.path_length_constraints # node.path_length_constraints}

\* the pop of a driver whose open list is the ordered set
OrderedSetPops == DriverPops

OpenListStep(current_node, next_open) ==
    /\ KeysDistinct(next_open)
    /\ \A m \in open : ~HLOpenEq(m, current_node) => m \in next_open
    /\ pc' = "loop" => \A m \in next_open : ~HLOpenEq(m, current_node)

\* C38: the open list of CBS, HBCBS, LBCBS, BCBS, DECBS and ACBS never holds
\* two nodes of equal cost, conflicts and paths; an iteration keeps every
\* stored node but the popped one, so a child with the key of a stored node
\* is dropped, and it removes the node with the key of the popped node.
C38_OpenKeysDistinct == [][OrderedSetPops => OpenListStep(Expanded, open')]_vars

\* a found child of the conflict the driver splits on has the key of a stored
\* node with other constraints
C38_Witness ==
    /\ OrderedSetPops
    /\ config.solver \in {"lbcbs", "decbs", "acbs"}
    /\ ~config.op_bypass_conflicts
    /\ Len(Expanded.conflicts) > 0
    /\ \E k \in 1..2 :
          /\ children(Expanded, Expanded.conflicts[SplitOn(Expanded)])[k].status = "found"
          /\ StoredUnderKey(open, children(Expanded, Expanded.conflicts[SplitOn(Expanded)])[k].node) # {}

----------------------------------------------------------------------------
(* The expansion counters of the alternating search *)

\* the next iteration of alternating_focal_a_star_search pops a node
AlternatingPops ==
    /\ ll.s # << >>
    /\ ll.kind = "alternating_focal"
    /\ ll.s.status = "running"
    /\ ll.s.open_list # {}
    /\ ll.steps < MaxExpansions

PopsFromFocal == ll.s.use_focal /\ ll.s.focal_list # {}

\* the growth of the two counters over the iteration: <<open, focal>>
CounterGrowth(before, after) ==
    <<after.expand_open - before.expand_open, after.expand_focal - before.expand_focal>>

\* C39: every pop of alternating_focal_a_star_search increments the counter
\* of the list the node was popped from by one and leaves the other counter
\* as it was.
C39_OneIncrementPerPop ==
    [][AlternatingPops =>
          CounterGrowth(ll.s, ll'.s) = (IF PopsFromFocal THEN <<0, 1>> ELSE <<1, 0>>)]_vars

\* what the search does: every pop increments both counters by one
C39_BothCountersPerPop == [][AlternatingPops => CounterGrowth(ll.s, ll'.s) = <<1, 1>>]_vars

\* after an iteration that popped, each counter equals the number of
\* iterations, whichever list the nodes came from
C39_CountersEqualIterations ==
    (ll.s # << >> /\ ll.kind = "alternating_focal" /\ ll.s.status # "none") =>
        (ll.s.expand_open = ll.steps /\ ll.s.expand_focal = ll.steps)

\* three pops, of which at least one from each list, and six increments
C39_DoubleCounted ==
    /\ ll.s # << >>
    /\ ll.kind = "alternating_focal"
    /\ ll.s.status # "none"
    /\ ll.steps = 3
    /\ ll.s.expand_open + ll.s.expand_focal = 6

====
